---- MODULE Spec2Model ----
(***************************************************************************)
(* Fax intake and review pipeline of backend/app: the intake processor     *)
(* (services/fax_service.py process_new_fax and the functions it calls),   *)
(* the review workflow (review_fax, batch_review_faxes,                    *)
(* mark_fax_processed, delete_fax, submit_feedback) and the persisted      *)
(* faxes / fax_feedback tables (models/fax.py).                            *)
(*                                                                         *)
(* Every database session of the service is opened, used and closed inside *)
(* one service function.  A review-side function reads and commits in one  *)
(* step of the model; process_new_fax is two steps, the duplicate query    *)
(* (lines 203-209) and the rest (lines 211-271), because extraction and    *)
(* the generation calls run between its query and its commit.              *)
(*                                                                         *)
(* Spec is the review workflow on the persisted tables, SpecStats the same *)
(* with get_fax_stats read between its calls; SpecIntake is the            *)
(* callers of process_new_fax (the watcher and the upload route)           *)
(* interleaved; SpecCall is single calls of the intake functions on drawn  *)
(* inputs; SpecWatcher is the folder watcher (services/folder_watcher.py)  *)
(* with its loop threads, its routes and the senders of files,             *)
(* SpecWatcherFair the same with threads that keep running, SpecErrorLog   *)
(* the watcher with a watch folder that can go away, SpecRearrival the     *)
(* watcher with senders that reuse a path, SpecGlobal the watcher from the *)
(* import of its module on (the global _watcher not yet constructed).      *)
(* SpecSessions is the review-side functions of two server processes on    *)
(* one documents.db, each a load step and a commit step; SpecSettings is   *)
(* get_settings and update_settings on fax_settings.  The enum FaxCategory *)
(* is the one the service imports from app.schemas.fax; a lookup of a name *)
(* it does not have raises.                                                *)
(***************************************************************************)
EXTENDS Integers, Sequences, FiniteSets, TLC

VARIABLES
    faxes,          \* table faxes: fax id -> row
    feedback,       \* table fax_feedback: set of rows
    clock,          \* datetime.utcnow(), counted in review-side operations
    last,           \* the last review-side call with what it returned or raised
    intake,         \* per caller of process_new_fax: where the call stands
    done,           \* per caller: history of its completed process_new_fax calls
    overrideCount,  \* history: successful overrides per fax id since it was created
    call,           \* the last serial call of an intake function: arguments and result
    watcher,        \* FaxFolderWatcher._state (WatcherState)
    stop_event,     \* FaxFolderWatcher._stop_event is set
    threads,        \* thread 0 serves the watcher routes, the others run _watch_loop
    folder,         \* the watch folder on disk: whether it exists, its files
    ticks,          \* calls of _scan_folder begun in the run
    hist,           \* history of the watcher: its last scan, file and route call
    sessions,       \* per SQLAlchemy session of a review-side call: where it stands
    settings,       \* table fax_settings: set of rows
    global_watcher  \* the module global _watcher of folder_watcher.py

watcherVars == <<watcher, stop_event, threads, folder, ticks, hist>>

sideVars == <<sessions, settings, global_watcher>>

vars == <<faxes, feedback, clock, last, intake, done, overrideCount, call, sideVars,
          watcherVars, sideVars>>

NULL == "NULL"                      \* Python None, SQL NULL
NoTime == <<>>                      \* a NULL DateTime column
At(t) == <<t>>                      \* a DateTime column holding time t

(* ------------------------------ bounds -------------------------------- *)
MaxClock == 3       \* review-side operations in a run
MaxLoads == 4       \* review-side calls of the server processes in a run
MaxCalls == 2       \* process_new_fax calls per caller in a run
MaxTicks == 2       \* calls of _scan_folder in a run
MaxThreads == 2     \* threads start creates in a run

(* --------------------------- enumerations ----------------------------- *)
FaxStatus == {"pending", "categorized", "approved", "overridden", "processed"}

\* The keys of category_map in categorize_fax, which are also the names the
\* service looks up on the enum (FaxCategory.unknown, FaxCategory.urgent, ...).
CategoryMapKeys ==
    {"medical_records", "lab_results", "prescriptions", "referrals",
     "insurance", "billing", "patient_correspondence", "administrative",
     "urgent", "unknown"}

\* Mutant of FaxCategory: the enum with the names of category_map added.
FaxCategoryWithMapKeys ==
    {"discharge_summary", "inpatient_document", "census", "junk_fax",
     "medical_records", "lab_results", "prescriptions", "referrals",
     "insurance", "billing", "patient_correspondence", "administrative",
     "urgent", "unknown"}

\* The members of the enum FaxCategory that fax_service.py imports.
FaxCategory == {"discharge_summary", "inpatient_document", "census", "junk_fax"}

\* FaxCategory.<name>: attribute lookup on the enum class; a name that is no
\* member raises AttributeError.
HasMember(name) == name \in FaxCategory

\* FaxCategory(value): lookup by value; a value that is no member raises
\* ValueError.
IsCategoryValue(v) == v \in FaxCategory

(* ------------------------------ inputs -------------------------------- *)
Contents == {1, 3}               \* file contents; a row holds the hash of 1 at start
Callers == {"watcher", "upload"}    \* _process_file of the watcher, upload_fax
OpIds == {1, 2, 3}                  \* fax ids of requests; no row has id 3 at start
FaxIds == 1..(2 + 2 * MaxCalls)     \* ids a row can get in a run
Actions == {"approve", "override"}  \* FaxReviewRequest.action

\* FaxReviewRequest bodies: approve ignores category and reason.
ApproveRequests ==
    {[category |-> NULL, reason |-> NULL, reviewer |-> "alice"],
     [category |-> NULL, reason |-> NULL, reviewer |-> NULL]}
OverrideRequests ==
    {[category |-> NULL, reason |-> "misfiled", reviewer |-> "alice"],
     [category |-> "census", reason |-> "misfiled", reviewer |-> "alice"],
     [category |-> "junk_fax", reason |-> NULL, reviewer |-> "bob"]}
Requests(action) ==
    IF action = "approve" THEN ApproveRequests ELSE OverrideRequests

\* fax_ids of batch requests: empty, all valid, one invalid id in each place,
\* a repeated id.
BatchIds == {<<>>, <<1, 2>>, <<3, 1>>, <<1, 3, 2>>, <<2, 2>>}

\* FaxFeedbackCreate bodies
FeedbackRequests ==
    {[correct_category |-> "junk_fax", feedback_text |-> "note", submitted_by |-> "bob"]}

\* What extract_text_from_file does: raise (the OCR tool is unavailable), or
\* return a text, of which the model keeps the length class of its stripped
\* form (long: at least 50 characters) and whether its lowercase form holds
\* one of the urgency keywords.
Extractions ==
    {[ok |-> FALSE, long |-> FALSE, keyword |-> FALSE],
     [ok |-> TRUE, long |-> FALSE, keyword |-> FALSE],
     [ok |-> TRUE, long |-> FALSE, keyword |-> TRUE],
     [ok |-> TRUE, long |-> TRUE, keyword |-> FALSE],
     [ok |-> TRUE, long |-> TRUE, keyword |-> TRUE]}

\* What generate_text does for the categorization prompt: raise, or return a
\* response in which the regex and json.loads find no object (dict FALSE) or
\* a dict with a category string and a confidence (numeric: isinstance int
\* or float), in hundredths.  mentions is the first category name, in the
\* order of the prompt, that the lowercase response contains ("" for none).
Generations ==
    {[ok |-> FALSE, dict |-> FALSE, category |-> "", numeric |-> FALSE,
      confidence |-> 0, mentions |-> ""],
     [ok |-> TRUE, dict |-> FALSE, category |-> "", numeric |-> FALSE,
      confidence |-> 0, mentions |-> ""],
     [ok |-> TRUE, dict |-> FALSE, category |-> "", numeric |-> FALSE,
      confidence |-> 0, mentions |-> "lab_results"],
     [ok |-> TRUE, dict |-> TRUE, category |-> "labs", numeric |-> FALSE,
      confidence |-> 0, mentions |-> "lab_results"],
     [ok |-> TRUE, dict |-> TRUE, category |-> "census", numeric |-> TRUE,
      confidence |-> 85, mentions |-> ""],
     [ok |-> TRUE, dict |-> TRUE, category |-> "census", numeric |-> TRUE,
      confidence |-> -20, mentions |-> ""],
     [ok |-> TRUE, dict |-> TRUE, category |-> "urgent", numeric |-> TRUE,
      confidence |-> 150, mentions |-> "urgent"]}

(* ------------------------- pure functions ----------------------------- *)
get_file_hash(c) == <<"md5", c>>

Max(a, b) == IF a >= b THEN a ELSE b
Min(a, b) == IF a <= b THEN a ELSE b

Raised(e) == [raised |-> e]
IsRaised(r) == "raised" \in DOMAIN r

\* Mutant of ShortCircuits: the length of the text is not looked at.
ShortCircuitsNever(text) == FALSE

\* categorize_fax line 76 (and summarize_fax line 147): the text is empty or
\* its stripped form has fewer than 50 characters, and the function returns
\* before its generate_text call.
ShortCircuits(text) == ~text.long

\* categorize_fax(text), with the outcome of its generate_text call as an
\* argument; confidence in hundredths.  Line 77 and line 106 look up
\* FaxCategory.unknown, lines 120-131 look up every key of category_map.
categorize_fax(text, gen) ==
    IF ShortCircuits(text)
    THEN IF HasMember("unknown")
         THEN [category |-> "unknown", confidence |-> 30]
         ELSE Raised("AttributeError")
    ELSE IF ~gen.ok THEN Raised("GenerationError")
    ELSE IF ~HasMember("unknown") THEN Raised("AttributeError")
    ELSE IF ~gen.dict THEN [category |-> "unknown", confidence |-> 50]
    ELSE IF \E n \in CategoryMapKeys : ~HasMember(n)
         THEN Raised("AttributeError")
    ELSE [category |-> IF gen.category \in CategoryMapKeys
                       THEN gen.category ELSE "unknown",
          confidence |-> IF gen.numeric
                         THEN Max(0, Min(100, gen.confidence)) ELSE 50]

\* detect_urgency(text, category).  Line 171 looks up FaxCategory.urgent; the
\* if/elif chain of lines 189-194 looks up prescriptions, then referrals, then
\* lab_results, each only when the comparisons before it were false.
detect_urgency(text, category) ==
    IF \/ ~HasMember("urgent")
       \/ ~HasMember("prescriptions")
       \/ (category # "prescriptions" /\ ~HasMember("referrals"))
       \/ (category \notin {"prescriptions", "referrals"}
           /\ ~HasMember("lab_results"))
    THEN Raised("AttributeError")
    ELSE LET u0 == category = "urgent"
             p0 == IF u0 THEN 50 ELSE 0
             p1 == IF text.keyword THEN Max(p0, 75) ELSE p0
         IN  [is_urgent |-> u0 \/ text.keyword,
              priority |-> CASE category = "prescriptions" -> Max(p1, 60)
                             [] category = "referrals" -> Max(p1, 55)
                             [] category = "lab_results" -> Max(p1, 50)
                             [] OTHER -> p1]

(* ------------------------------ tables -------------------------------- *)
\* The Fax(...) row process_new_fax builds, with the column defaults of the
\* model for the columns it leaves out.
NewFax(h, category, confidence, urgent, priority) ==
    [file_hash |-> h,
     status |-> "categorized",
     ai_category |-> category,
     ai_confidence |-> confidence,
     final_category |-> NULL,
     was_overridden |-> FALSE,
     override_reason |-> NULL,
     reviewed_by |-> NULL,
     reviewed_at |-> NoTime,
     is_urgent |-> urgent,
     priority_score |-> priority]

\* An INTEGER PRIMARY KEY of SQLite: one more than the largest id in the table.
NextId(ids) ==
    IF ids = {} THEN 1 ELSE 1 + CHOOSE m \in ids : \A i \in ids : i <= m

FaxesWithHash(fx, h) == {id \in DOMAIN fx : fx[id].file_hash = h}

FeedbackOf(fb, id) == {f \in fb : f.fax_id = id}

\* The FaxFeedback(...) row; origin is history (which function added the row),
\* not a column.
NewFeedback(fb, id, ai, correct, text, by, origin) ==
    [id |-> NextId({f.id : f \in fb}),
     fax_id |-> id,
     ai_category |-> ai,
     correct_category |-> correct,
     feedback_text |-> text,
     submitted_by |-> by,
     origin |-> origin]

\* A review-side call and what it returned or raised; before is history: the
\* status the row of id had when the call began (NULL without such a row).
Call(seq, op, id, ids, action, req, outcome, processed, failed) ==
    [seq |-> seq, op |-> op, fax_id |-> id, ids |-> ids, action |-> action,
     category |-> req.category, reason |-> req.reason,
     reviewer |-> req.reviewer, outcome |-> outcome,
     processed |-> processed, failed |-> failed,
     before |-> IF id \in DOMAIN faxes THEN faxes[id].status ELSE NULL]

NoRequest == [category |-> NULL, reason |-> NULL, reviewer |-> NULL]

\* No call of an intake function yet.
NoCall == [fn |-> "none", content |-> 0, text |-> <<>>, gen |-> <<>>,
           sumOk |-> TRUE, category |-> NULL, outcome |-> NULL,
           generation |-> "not_called", value |-> <<>>]

(* ------------------------------ intake -------------------------------- *)
\* process_new_fax lines 211-240: extraction, categorization, urgency and
\* summary for a file of hash h.  The row to add, or what was raised.
\* sumOk: the generate_text call of summarize_fax returns.
IntakeRow(h, ex, gen, sumOk) ==
    IF ~ex.ok THEN Raised("ToolUnavailable")
    ELSE LET cat == categorize_fax(ex, gen) IN
         IF IsRaised(cat) THEN cat
         ELSE LET urg == detect_urgency(ex, cat.category) IN
              IF IsRaised(urg) THEN urg
              ELSE IF ex.long /\ ~sumOk THEN Raised("GenerationError")
              ELSE NewFax(h, cat.category, cat.confidence,
                          urg.is_urgent, urg.priority)

\* The generate_text calls of process_new_fax (line 103 in categorize_fax,
\* line 162 in summarize_fax) on a file that is no duplicate: none was made,
\* the last one made raised, or each one made returned.
GenerationCalls(ex, gen, sumOk) ==
    IF ~ex.ok \/ ShortCircuits(ex) THEN "not_called"
    ELSE IF ~gen.ok THEN "raised"
    ELSE LET cat == categorize_fax(ex, gen) IN
         IF IsRaised(cat) THEN "returned"
         ELSE IF IsRaised(detect_urgency(ex, cat.category)) THEN "returned"
         ELSE IF sumOk THEN "returned" ELSE "raised"

\* process_new_fax lines 246-265: the FaxRecord built after the commit looks
\* the stored category up by value.
RecordOutcome(row) ==
    IF IsCategoryValue(row.ai_category) THEN "created" ELSE "ValueError"

\* process_new_fax(file_path, filename) run without another call between its
\* query and its commit: the table after the call, what the call returned
\* ("created", "duplicate") or raised, and its generate_text calls.
process_new_fax(fx, c, ex, gen, sumOk) ==
    IF FaxesWithHash(fx, get_file_hash(c)) # {}
    THEN [faxes |-> fx, outcome |-> "duplicate", generation |-> "not_called"]
    ELSE LET row == IntakeRow(get_file_hash(c), ex, gen, sumOk) IN
         IF IsRaised(row)
         THEN [faxes |-> fx, outcome |-> row.raised,
               generation |-> GenerationCalls(ex, gen, sumOk)]
         ELSE [faxes |-> (NextId(DOMAIN fx) :> row) @@ fx,
               outcome |-> RecordOutcome(row),
               generation |-> GenerationCalls(ex, gen, sumOk)]

\* A serial call of process_new_fax on a file of content c.
ProcessNewFax(c, ex, gen, sumOk) ==
    /\ LET r == process_new_fax(faxes, c, ex, gen, sumOk)
       IN  /\ faxes' = r.faxes
           /\ call' = [fn |-> "process_new_fax", content |-> c, text |-> ex,
                       gen |-> gen, sumOk |-> sumOk, category |-> NULL,
                       outcome |-> r.outcome, generation |-> r.generation,
                       value |-> <<>>]
    /\ UNCHANGED <<feedback, clock, last, intake, done, overrideCount, watcherVars, sideVars>>

\* A call of categorize_fax on an extracted text.
CategorizeFax(ex, gen) ==
    /\ ex.ok
    /\ LET r == categorize_fax(ex, gen)
       IN  call' = [fn |-> "categorize_fax", content |-> 0, text |-> ex,
                    gen |-> gen, sumOk |-> TRUE, category |-> NULL,
                    outcome |-> IF IsRaised(r) THEN r.raised ELSE "returned",
                    generation |-> IF ShortCircuits(ex) THEN "not_called"
                                   ELSE IF gen.ok THEN "returned" ELSE "raised",
                    value |-> r]
    /\ UNCHANGED <<faxes, feedback, clock, last, intake, done, overrideCount,
                   watcherVars, sideVars>>

\* A call of detect_urgency on an extracted text and a member of the enum.
DetectUrgency(ex, category) ==
    /\ ex.ok
    /\ LET r == detect_urgency(ex, category)
       IN  call' = [fn |-> "detect_urgency", content |-> 0, text |-> ex,
                    gen |-> <<>>, sumOk |-> TRUE, category |-> category,
                    outcome |-> IF IsRaised(r) THEN r.raised ELSE "returned",
                    generation |-> "not_called", value |-> r]
    /\ UNCHANGED <<faxes, feedback, clock, last, intake, done, overrideCount,
                   watcherVars, sideVars>>

\* History entry of a completed call of caller p on content c: what it
\* returned or raised, the number of rows holding the hash after the call and
\* whether another caller was between query and commit on the same content.
Completed(p, c, outcome, fx) ==
    [content |-> c, outcome |-> outcome,
     records |-> Cardinality(FaxesWithHash(fx, get_file_hash(c))),
     concurrent |-> \E q \in Callers \ {p} :
                       intake[q].pc = "processing" /\ intake[q].content = c]

\* process_new_fax lines 203-209: hash the file and query the hash.  A row
\* with the hash ends the call with None.
QueryDuplicate(p, c) ==
    /\ intake[p].pc = "idle"
    /\ Len(done[p]) < MaxCalls
    /\ IF FaxesWithHash(faxes, get_file_hash(c)) # {}
       THEN /\ done' = [done EXCEPT ![p] =
                           Append(@, Completed(p, c, "duplicate", faxes))]
            /\ UNCHANGED intake
       ELSE /\ intake' = [intake EXCEPT ![p] = [pc |-> "processing", content |-> c]]
            /\ UNCHANGED done
    /\ UNCHANGED <<faxes, feedback, clock, last, overrideCount, call, watcherVars, sideVars>>

\* process_new_fax lines 211-271: the rest of the call.  An exception rolls
\* back and is raised to the caller; otherwise the row is added and committed.
ProcessAndPersist(p, ex, gen, sumOk) ==
    /\ intake[p].pc = "processing"
    /\ LET c == intake[p].content
           row == IntakeRow(get_file_hash(c), ex, gen, sumOk)
       IN  IF IsRaised(row)
           THEN /\ done' = [done EXCEPT ![p] =
                               Append(@, Completed(p, c, row.raised, faxes))]
                /\ UNCHANGED faxes
           ELSE /\ faxes' = (NextId(DOMAIN faxes) :> row) @@ faxes
                /\ done' = [done EXCEPT ![p] =
                               Append(@, Completed(p, c, RecordOutcome(row), faxes'))]
    /\ intake' = [intake EXCEPT ![p] = [pc |-> "idle", content |-> 0]]
    /\ UNCHANGED <<feedback, clock, last, overrideCount, call, watcherVars, sideVars>>

(* --------------------------- review workflow -------------------------- *)
Tables(fx, fb, oc, outcome) ==
    [faxes |-> fx, feedback |-> fb, overrides |-> oc, outcome |-> outcome]

\* Mutant of ReviewPrecheck: the category is never checked.
ReviewPrecheckNoValidation(fx, id, action, req) ==
    IF id \notin DOMAIN fx THEN "not_found" ELSE "proceed"

\* Mutant of ReviewPrecheck: the request is validated before the row is
\* looked up.
ReviewPrecheckValidatesFirst(fx, id, action, req) ==
    IF action # "approve" /\ req.category = NULL THEN "ValueError"
    ELSE IF id \notin DOMAIN fx THEN "not_found"
    ELSE "proceed"

\* Mutant of ReviewPrecheck: a row that is already approved cannot be
\* approved again.
ReviewPrecheckOnce(fx, id, action, req) ==
    IF id \notin DOMAIN fx THEN "not_found"
    ELSE IF action # "approve" /\ req.category = NULL THEN "ValueError"
    ELSE IF action = "approve" /\ fx[id].status = "approved" THEN "ValueError"
    ELSE "proceed"

\* review_fax lines 368-370 and 380-382: what stops a review before it
\* changes anything.  The row is looked up first.
ReviewPrecheck(fx, id, action, req) ==
    IF id \notin DOMAIN fx THEN "not_found"
    ELSE IF action # "approve" /\ req.category = NULL THEN "ValueError"
    ELSE "proceed"

\* Mutant of ApprovedRow: was_overridden is left as it was.
ApprovedRowKeepsOverridden(row, req, now) ==
    [row EXCEPT !.status = "approved",
                !.final_category = row.ai_category,
                !.reviewed_by = req.reviewer,
                !.reviewed_at = At(now)]

\* review_fax lines 374-379 and 401-402: the row after approve.
ApprovedRow(row, req, now) ==
    [row EXCEPT !.status = "approved",
                !.final_category = row.ai_category,
                !.was_overridden = FALSE,
                !.reviewed_by = req.reviewer,
                !.reviewed_at = At(now)]

\* Mutant of OverriddenRow: was_overridden is left as it was.
OverriddenRowKeepsFlag(row, req, now) ==
    [row EXCEPT !.status = "overridden",
                !.final_category = req.category,
                !.override_reason = req.reason,
                !.reviewed_by = req.reviewer,
                !.reviewed_at = At(now)]

\* review_fax lines 394-398 and 401-402: the row after override.
OverriddenRow(row, req, now) ==
    [row EXCEPT !.status = "overridden",
                !.final_category = req.category,
                !.was_overridden = TRUE,
                !.override_reason = req.reason,
                !.reviewed_by = req.reviewer,
                !.reviewed_at = At(now)]

\* Mutant of OverrideFeedback: the feedback row is never added.
OverrideFeedbackDropped(fb, id, row, req) == fb

\* Mutant of OverrideFeedback: the new feedback row takes the place of the
\* earlier feedback rows of the fax.
OverrideFeedbackReplaces(fb, id, row, req) ==
    (fb \ FeedbackOf(fb, id))
        \cup {NewFeedback(fb, id, row.ai_category, req.category,
                          req.reason, req.reviewer, "override")}

\* review_fax lines 384-392: the feedback table after override.
OverrideFeedback(fb, id, row, req) ==
    fb \cup {NewFeedback(fb, id, row.ai_category, req.category,
                         req.reason, req.reviewer, "override")}

\* review_fax(fax_id, request) at time now on the tables (fx, fb); oc is the
\* history of overrides.  Outcomes: "ok" (a FaxReviewResponse), "not_found"
\* (None), "ValueError" (raised before any change, rolled back),
\* "response_error" (FaxCategory(final_category) raised at line 411, after
\* the commit).
review_fax(fx, fb, oc, id, action, req, now) ==
    LET pre == ReviewPrecheck(fx, id, action, req) IN
    IF pre # "proceed" THEN Tables(fx, fb, oc, pre)
    ELSE LET row == IF action = "approve"
                    THEN ApprovedRow(fx[id], req, now)
                    ELSE OverriddenRow(fx[id], req, now)
         IN  Tables([fx EXCEPT ![id] = row],
                    IF action = "approve" THEN fb
                    ELSE OverrideFeedback(fb, id, fx[id], req),
                    IF action = "approve" THEN oc
                    ELSE [oc EXCEPT ![id] = @ + 1],
                    IF IsCategoryValue(row.final_category)
                    THEN "ok" ELSE "response_error")

ReviewFax(id, action, req) ==
    /\ clock < MaxClock
    /\ LET r == review_fax(faxes, feedback, overrideCount, id, action, req, clock + 1)
       IN  /\ faxes' = r.faxes
           /\ feedback' = r.feedback
           /\ overrideCount' = r.overrides
           /\ last' = Call(clock + 1, "review", id, <<>>, action, req, r.outcome, 0, 0)
    /\ clock' = clock + 1
    /\ UNCHANGED <<intake, done, call, watcherVars, sideVars>>

\* Mutant of BatchItem: an exception of review_fax is not caught and ends
\* the loop.
BatchItemUncaught(st, id, action, req, now) ==
    IF st.escaped THEN st
    ELSE IF action \notin Actions
    THEN [st EXCEPT !.escaped = TRUE]
    ELSE LET r == review_fax(st.faxes, st.feedback, st.overrides,
                             id, action, req, now)
         IN  IF r.outcome = "ok"
             THEN [st EXCEPT !.faxes = r.faxes, !.feedback = r.feedback,
                             !.overrides = r.overrides, !.processed = @ + 1]
             ELSE IF r.outcome = "not_found"
             THEN [st EXCEPT !.failed = @ + 1]
             ELSE [st EXCEPT !.faxes = r.faxes, !.feedback = r.feedback,
                             !.overrides = r.overrides, !.escaped = TRUE]

\* batch_review_faxes lines 434-448: one id of the loop.  st holds the tables
\* and the two counters; escaped says an exception left the loop.
BatchItem(st, id, action, req, now) ==
    IF st.escaped THEN st
    ELSE IF action \notin Actions
    THEN [st EXCEPT !.failed = @ + 1]      \* FaxReviewRequest(...) raises
    ELSE LET r == review_fax(st.faxes, st.feedback, st.overrides,
                             id, action, req, now)
         IN  IF r.outcome = "ok"
             THEN [st EXCEPT !.faxes = r.faxes, !.feedback = r.feedback,
                             !.overrides = r.overrides, !.processed = @ + 1]
             ELSE [st EXCEPT !.faxes = r.faxes, !.feedback = r.feedback,
                             !.overrides = r.overrides, !.failed = @ + 1]

RECURSIVE BatchLoop(_, _, _, _, _)
BatchLoop(st, ids, action, req, now) ==
    IF ids = <<>> THEN st
    ELSE BatchLoop(BatchItem(st, Head(ids), action, req, now),
                   Tail(ids), action, req, now)

BatchReviewFaxes(ids, action, req) ==
    /\ clock < MaxClock
    /\ LET st == BatchLoop([faxes |-> faxes, feedback |-> feedback,
                            overrides |-> overrideCount, processed |-> 0,
                            failed |-> 0, escaped |-> FALSE],
                           ids, action, req, clock + 1)
       IN  /\ faxes' = st.faxes
           /\ feedback' = st.feedback
           /\ overrideCount' = st.overrides
           /\ last' = Call(clock + 1, "batch", 0, ids, action, req,
                           IF st.escaped THEN "raised" ELSE "returned",
                           st.processed, st.failed)
    /\ clock' = clock + 1
    /\ UNCHANGED <<intake, done, call, watcherVars, sideVars>>

\* Mutant of ProcessedRow: the review of the row is cleared as well.
ProcessedRowClearsReview(row) ==
    [row EXCEPT !.status = "processed",
                !.reviewed_by = NULL,
                !.reviewed_at = NoTime]

\* mark_fax_processed lines 461-462: the row after the call (updated_at is
\* not a column of the model).
ProcessedRow(row) == [row EXCEPT !.status = "processed"]

\* mark_fax_processed
MarkFaxProcessed(id) ==
    /\ clock < MaxClock
    /\ IF id \in DOMAIN faxes
       THEN /\ faxes' = [faxes EXCEPT ![id] = ProcessedRow(faxes[id])]
            /\ last' = Call(clock + 1, "mark_processed", id, <<>>, NULL, NoRequest, "ok", 0, 0)
       ELSE /\ UNCHANGED faxes
            /\ last' = Call(clock + 1, "mark_processed", id, <<>>, NULL, NoRequest, "not_found", 0, 0)
    /\ clock' = clock + 1
    /\ UNCHANGED <<feedback, intake, done, overrideCount, call, watcherVars, sideVars>>

\* Mutant of DeleteFeedback: the feedback rows of the fax are kept.
DeleteFeedbackKept(fb, id) == fb

\* delete_fax line 679: the feedback table after the delete.
DeleteFeedback(fb, id) == fb \ FeedbackOf(fb, id)

\* delete_fax
DeleteFax(id) ==
    /\ clock < MaxClock
    /\ IF id \in DOMAIN faxes
       THEN /\ feedback' = DeleteFeedback(feedback, id)
            /\ faxes' = [i \in DOMAIN faxes \ {id} |-> faxes[i]]
            /\ overrideCount' = [overrideCount EXCEPT ![id] = 0]
            /\ last' = Call(clock + 1, "delete", id, <<>>, NULL, NoRequest, "ok", 0, 0)
       ELSE /\ UNCHANGED <<faxes, feedback, overrideCount>>
            /\ last' = Call(clock + 1, "delete", id, <<>>, NULL, NoRequest, "not_found", 0, 0)
    /\ clock' = clock + 1
    /\ UNCHANGED <<intake, done, call, watcherVars, sideVars>>

\* submit_feedback
SubmitFeedback(id, fr) ==
    /\ clock < MaxClock
    /\ IF id \in DOMAIN faxes
       THEN /\ feedback' = feedback \cup
                   {NewFeedback(feedback, id,
                                IF faxes[id].ai_category = NULL THEN "unknown"
                                ELSE faxes[id].ai_category,
                                fr.correct_category, fr.feedback_text,
                                fr.submitted_by, "submit")}
            /\ last' = Call(clock + 1, "submit_feedback", id, <<>>, NULL, NoRequest,
                            IF IsCategoryValue(faxes[id].ai_category)
                            THEN "ok" ELSE "response_error", 0, 0)
       ELSE /\ UNCHANGED feedback
            /\ last' = Call(clock + 1, "submit_feedback", id, <<>>, NULL, NoRequest, "ValueError", 0, 0)
    /\ clock' = clock + 1
    /\ UNCHANGED <<faxes, intake, done, overrideCount, call, watcherVars, sideVars>>

(* ----------------------------- statistics ----------------------------- *)
\* The fields of the FaxStats schema; none of them has a default.
FaxStatsFields ==
    {"total_faxes", "pending", "categorized", "approved", "overridden",
     "processed", "auto_approved", "category_counts", "total_reviewed",
     "accuracy_rate", "processed_today", "processed_this_week"}

\* The keyword arguments get_fax_stats gives to FaxStats(...).
FaxStatsArguments ==
    {"total_faxes", "pending", "categorized", "approved", "overridden",
     "processed", "category_counts", "total_reviewed", "accuracy_rate",
     "processed_today", "processed_this_week"}

\* status_counts.get(status, 0) over the GROUP BY status query.
StatusCount(fx, status) ==
    Cardinality({id \in DOMAIN fx : fx[id].status = status})

\* coalesce(final_category, ai_category) of a row.
CountedCategory(row) ==
    IF row.final_category # NULL THEN row.final_category ELSE row.ai_category

\* category_counts: one key for each non-NULL value of the coalesce.
CategoryCounts(fx) ==
    [c \in {CountedCategory(fx[id]) : id \in DOMAIN fx} \ {NULL} |->
        Cardinality({id \in DOMAIN fx : CountedCategory(fx[id]) = c})]

\* approved / total_reviewed * 100, else 0.0, as the fraction <<n, d>>.
AccuracyRate(approved, total_reviewed) ==
    IF total_reviewed > 0 THEN <<approved * 100, total_reviewed>> ELSE <<0, 1>>

\* get_fax_stats on the faxes table fx: the FaxStats object, or what the
\* FaxStats(...) call of lines 516-528 raises.  Every reviewed_at of a run
\* lies within the current day.
get_fax_stats(fx) ==
    LET approved == StatusCount(fx, "approved")
        overridden == StatusCount(fx, "overridden")
        total_reviewed == approved + overridden
        recent == Cardinality({id \in DOMAIN fx : fx[id].reviewed_at # NoTime})
    IN  IF ~(FaxStatsFields \subseteq FaxStatsArguments)
        THEN Raised("ValidationError")
        ELSE [total_faxes |-> Cardinality(DOMAIN fx),
              pending |-> StatusCount(fx, "pending"),
              categorized |-> StatusCount(fx, "categorized"),
              approved |-> approved,
              overridden |-> overridden,
              processed |-> StatusCount(fx, "processed"),
              category_counts |-> CategoryCounts(fx),
              total_reviewed |-> total_reviewed,
              accuracy_rate |-> AccuracyRate(approved, total_reviewed),
              processed_today |-> recent,
              processed_this_week |-> recent]

\* GET /stats: get_fax_stats on the current table; it writes nothing.
GetFaxStats ==
    /\ LET r == get_fax_stats(faxes)
       IN  call' = [NoCall EXCEPT
                    !.fn = "get_fax_stats",
                    !.outcome = IF IsRaised(r) THEN r.raised ELSE "returned",
                    !.value = r]
    /\ UNCHANGED <<faxes, feedback, clock, last, intake, done, overrideCount,
                   watcherVars, sideVars>>

(* ------------------------------ settings ------------------------------ *)
\* The keys get_settings reads.
SettingKeys ==
    {"watch_folder", "auto_process", "require_review", "confidence_threshold"}

DEFAULT_WATCH_FOLDER == "./fax_inbox"
DEFAULT_CONFIDENCE_THRESHOLD == 70  \* 0.7, in hundredths

\* The dicts update_settings gets: model_dump(exclude_none=True) of a
\* FaxSettingsUpdate (a str, two bools, a float within 0..1, in
\* hundredths), and a dict with a key of no schema, from a direct call.
Updates ==
    {[k \in {} |-> NULL],
     "watch_folder" :> "/srv/faxes",
     "watch_folder" :> "",
     "auto_process" :> FALSE,
     ("auto_process" :> TRUE) @@ ("confidence_threshold" :> 80),
     ("require_review" :> FALSE) @@ ("confidence_threshold" :> 0),
     "note" :> "x"}

\* update_settings line 655: str(value), lowercase for a bool.
StrValue(k, v) ==
    CASE k \in {"auto_process", "require_review"} ->
            IF v THEN "true" ELSE "false"
      [] k = "confidence_threshold" -> ToString(v)
      [] OTHER -> v

\* float(s.value) of get_settings line 637: the set of its results, empty
\* when it raises.
ParseFloat(str) == {n \in 0..100 : ToString(n) = str}

\* Mutant of Upsert: a row is added whether or not the key has one.
UpsertAlwaysAdds(rows, k, str) == rows \cup {[key |-> k, value |-> str]}

\* update_settings lines 654-661: the row of the key gets the value, or a
\* row is added.
Upsert(rows, k, str) ==
    IF \E r \in rows : r.key = k
    THEN {IF r.key = k THEN [r EXCEPT !.value = str] ELSE r : r \in rows}
    ELSE rows \cup {[key |-> k, value |-> str]}

\* update_settings lines 652-663: the table after the loop and the commit.
RECURSIVE UpdateLoop(_, _, _)
UpdateLoop(rows, u, keys) ==
    IF keys = {} THEN rows
    ELSE LET k == CHOOSE x \in keys : TRUE
         IN  UpdateLoop(Upsert(rows, k, StrValue(k, u[k])), u, keys \ {k})

update_settings(rows, u) == UpdateLoop(rows, u, DOMAIN u)

\* get_settings: the defaults, overwritten from the rows of the table.
get_settings(rows) ==
    LET Has(k) == \E r \in rows : r.key = k
        Val(k) == (CHOOSE r \in rows : r.key = k).value
    IN  [watch_folder |->
            IF Has("watch_folder") /\ Val("watch_folder") \notin {"", NULL}
            THEN Val("watch_folder") ELSE DEFAULT_WATCH_FOLDER,
         auto_process |->
            IF Has("auto_process") THEN Val("auto_process") = "true" ELSE TRUE,
         require_review |->
            IF Has("require_review") THEN Val("require_review") = "true"
            ELSE TRUE,
         confidence_threshold |->
            IF Has("confidence_threshold")
               /\ ParseFloat(Val("confidence_threshold")) # {}
            THEN CHOOSE n \in ParseFloat(Val("confidence_threshold")) : TRUE
            ELSE DEFAULT_CONFIDENCE_THRESHOLD]

\* PUT /settings: update_settings(updates), which returns get_settings().
\* previous is history: what get_settings returned before the call.
UpdateSettings(u) ==
    /\ settings' = update_settings(settings, u)
    /\ call' = [fn |-> "update_settings", updates |-> u,
                previous |-> get_settings(settings),
                value |-> get_settings(update_settings(settings, u))]
    /\ UNCHANGED <<faxes, feedback, clock, last, intake, done, overrideCount,
                   watcherVars, sessions, global_watcher>>

\* GET /settings
GetSettings ==
    /\ call' = [fn |-> "get_settings", updates |-> [k \in {} |-> NULL],
                previous |-> get_settings(settings),
                value |-> get_settings(settings)]
    /\ UNCHANGED <<faxes, feedback, clock, last, intake, done, overrideCount,
                   watcherVars, sideVars>>

(* ------------------------------ sessions ------------------------------ *)
(* A route handler is a coroutine without an await, so one server process  *)
(* runs its review-side calls one at a time (Spec).  Server processes on   *)
(* the same documents.db overlap: each call opens its own Session          *)
(* (SessionLocal, core/db.py lines 7-11), reads its row with a SELECT that *)
(* holds no lock, changes the loaded object in memory, and writes at       *)
(* db.commit().  The flush of the commit sends an UPDATE with the columns  *)
(* whose value differs from the loaded one, and the INSERT and DELETE      *)
(* statements, in one transaction.                                         *)

Sessions == {"w1", "w2"}            \* server processes
SessionOps == {"approve", "override", "submit_feedback", "delete"}

\* The ids of the calls: a fax of the table and an id without row.
SessionIds == {1, 3}

SessionRequests(op) ==
    CASE op = "approve" -> {r \in ApproveRequests : r.reviewer # NULL}
      [] op = "override" -> OverrideRequests
      [] OTHER -> {NoRequest}

\* No call in the session; row is the loaded Fax object.
NoSession ==
    [pc |-> "idle", op |-> NULL, id |-> 0, req |-> NoRequest, row |-> NULL,
     now |-> 0, outcome |-> NULL, raced |-> FALSE]

\* review_fax lines 374-403: the attributes of the loaded object after the
\* assignments of the call.
ReviewedRow(se) ==
    IF se.op = "approve" THEN ApprovedRow(se.row, se.req, se.now)
    ELSE OverriddenRow(se.row, se.req, se.now)

\* The SET clause of the UPDATE of a flush: the columns whose assigned value
\* is not equal to the loaded one.
ChangedColumns(loaded, assigned) ==
    {c \in DOMAIN assigned : assigned[c] # loaded[c]}

\* The stored row after the UPDATE.
FlushRow(stored, loaded, assigned) ==
    [c \in DOMAIN stored |->
        IF c \in ChangedColumns(loaded, assigned) THEN assigned[c]
        ELSE stored[c]]

\* review_fax line 405: db.commit() of a review on the tables (fx, fb).  The
\* UPDATE of a row that is no longer there matches no row, the flush raises
\* and the transaction is rolled back.
CommitReview(fx, fb, se) ==
    IF se.id \notin DOMAIN fx
    THEN [faxes |-> fx, feedback |-> fb, outcome |-> "StaleDataError"]
    ELSE [faxes |-> [fx EXCEPT ![se.id] = FlushRow(@, se.row, ReviewedRow(se))],
          feedback |-> IF se.op = "override"
                       THEN OverrideFeedback(fb, se.id, se.row, se.req)
                       ELSE fb,
          outcome |-> "ok"]

\* submit_feedback line 603: db.commit() inserts the feedback row; fax_id is
\* a plain Integer column, no foreign key.
CommitFeedback(fx, fb, se, fr) ==
    [faxes |-> fx,
     feedback |-> fb \cup {NewFeedback(fb, se.id,
                                       IF se.row.ai_category = NULL
                                       THEN "unknown" ELSE se.row.ai_category,
                                       fr.correct_category, fr.feedback_text,
                                       fr.submitted_by, "submit")},
     outcome |-> "ok"]

\* delete_fax lines 678-681: the DELETE of the feedback rows, the DELETE of
\* the fax row and the commit, in one transaction.
CommitDelete(fx, fb, se) ==
    [faxes |-> [i \in DOMAIN fx \ {se.id} |-> fx[i]],
     feedback |-> DeleteFeedback(fb, se.id),
     outcome |-> "ok"]

\* The first query of review_fax (line 368), submit_feedback (line 589) or
\* delete_fax (line 674) in session w, with the checks that end the call
\* before it writes.
SessionLoad(w, op, id, req) ==
    /\ sessions[w].pc \in {"idle", "done"}
    /\ clock < MaxLoads
    /\ LET pre == IF id \notin DOMAIN faxes
                  THEN IF op = "submit_feedback" THEN "ValueError"
                       ELSE "not_found"
                  ELSE IF op = "override" /\ req.category = NULL
                  THEN "ValueError"
                  ELSE "proceed"
       IN  sessions' = [sessions EXCEPT ![w] =
              [pc |-> IF pre = "proceed" THEN "loaded" ELSE "done",
               op |-> op, id |-> id, req |-> req,
               row |-> IF pre = "proceed" THEN faxes[id] ELSE NULL,
               now |-> clock + 1,
               outcome |-> IF pre = "proceed" THEN NULL ELSE pre,
               raced |-> FALSE]]
    /\ clock' = clock + 1
    /\ UNCHANGED <<faxes, feedback, last, intake, done, overrideCount, call,
                   watcherVars, settings, global_watcher>>

\* db.commit() of the call of session w.  raced is history: another session
\* holds the same row, loaded with the same contents, and has not committed.
SessionCommit(w) ==
    /\ sessions[w].pc = "loaded"
    /\ LET se == sessions[w]
           r == CASE se.op \in Actions -> CommitReview(faxes, feedback, se)
                  [] se.op = "submit_feedback" ->
                        CommitFeedback(faxes, feedback, se,
                                       CHOOSE fr \in FeedbackRequests : TRUE)
                  [] OTHER -> CommitDelete(faxes, feedback, se)
       IN  /\ faxes' = r.faxes
           /\ feedback' = r.feedback
           /\ overrideCount' =
                 IF se.op = "override" /\ r.outcome = "ok"
                 THEN [overrideCount EXCEPT ![se.id] = @ + 1]
                 ELSE IF se.op = "delete"
                 THEN [overrideCount EXCEPT ![se.id] = 0]
                 ELSE overrideCount
           /\ sessions' = [sessions EXCEPT ![w] =
                 [@ EXCEPT !.pc = "done", !.outcome = r.outcome,
                           !.raced = \E v \in Sessions \ {w} :
                                        /\ sessions[v].pc = "loaded"
                                        /\ sessions[v].id = se.id
                                        /\ sessions[v].row = se.row]]
    /\ UNCHANGED <<clock, last, intake, done, call, watcherVars, settings,
                   global_watcher>>

(* --------------------------- folder watcher --------------------------- *)
(* services/folder_watcher.py.  The routes that call start, stop and       *)
(* manual_scan are coroutines without an await: the event loop runs one    *)
(* of them at a time, on thread 0.  A thread that start creates runs       *)
(* _watch_loop.  A call of _scan_folder is two kinds of step: the listing  *)
(* with its readiness checks (lines 128-155), then one step per file of    *)
(* new_files (lines 158-165).  stop is two steps: the signal, and the      *)
(* return of join(timeout=5).                                              *)

SUPPORTED_EXTENSIONS == {".pdf", ".tif", ".tiff"}

\* The entries of the watch folder in a run: a.pdf holds the content of a
\* row of the table, b.tif a content that no row holds.
FaxPaths == {"a.pdf", "b.tif"}
Arriving == {"b.tif"}               \* the file a sender is still writing
Listing == FaxPaths \cup {"notes.txt"}
Suffix(f) ==
    CASE f = "a.pdf" -> ".pdf" [] f = "b.tif" -> ".tif" [] OTHER -> ".txt"
ContentOf(f) == IF f = "a.pdf" THEN 1 ELSE 3

\* The courses a call of process_new_fax from the watcher takes: the
\* extraction fails or gives a short or a long text, the generation call of
\* categorize_fax raises or returns a dict, the one of summarize_fax raises
\* or returns (a call that is not reached is taken to return).
FileRuns ==
    {r \in [ex : {x \in Extractions : ~x.keyword},
            gen : {x \in Generations : ~x.ok \/ x.category = "census"},
            sumOk : BOOLEAN] :
        /\ ~r.gen.ok => r.ex.long
        /\ ~r.sumOk => (r.ex.long /\ r.gen.ok)}

\* A file on disk is absent, growing (a writer is appending to it), locked
\* (it cannot be opened) or stable.
FileStates == {"absent", "growing", "locked", "stable"}

RouteThread == 0
LoopThreads == 1..MaxThreads

\* The number of threads start has created; self._thread is the last one.
ThreadCount == Cardinality({t \in LoopThreads : threads[t].pc # "unborn"})

\* errors[-10:]
ErrorLogSize == 10
KeepLast(q, n) == IF Len(q) <= n THEN q ELSE SubSeq(q, Len(q) - n + 1, Len(q))

ErrorMessage(kind, name) == [kind |-> kind, name |-> name]

\* An entry of the history of the watcher.  error: what process_new_fax
\* raised for the file; rearrived: the paths at which a new file has
\* appeared after the path was put into processed_files.
Event(kind, by, path, outcome, unready) ==
    [kind |-> kind, by |-> by, path |-> path, outcome |-> outcome,
     deferred |-> hist.deferred \cup unready,
     error |-> NULL, rearrived |-> hist.rearrived]

InitWatcher ==
    /\ watcher = [is_running |-> FALSE, files_in_queue |-> 0,
                  processed_files |-> {}, errors |-> <<>>]
    /\ stop_event = FALSE
    /\ threads = [t \in {RouteThread} \cup LoopThreads |->
                     [pc |-> IF t = RouteThread THEN "idle" ELSE "unborn",
                      queue |-> <<>>]]
    /\ folder = [exists |-> TRUE,
                 files |-> [f \in Listing |->
                               IF f = "b.tif" THEN "growing" ELSE "stable"],
                 processed |-> {}]
    /\ ticks = 0
    /\ hist = [kind |-> "none", by |-> RouteThread, path |-> NULL,
               outcome |-> NULL, deferred |-> {}, error |-> NULL,
               rearrived |-> {}]

\* Mutant of is_file_ready: the two sizes are not compared.
is_file_readyWithoutSizes(st) == st \in {"stable", "growing"}

\* _is_file_ready: the two samples of st_size are equal and the file opens.
is_file_ready(st) == st = "stable"

\* _scan_folder lines 137-147: the entries that reach the readiness check.
Candidates(fl, cache) ==
    {f \in DOMAIN fl : /\ fl[f] # "absent"
                       /\ Suffix(f) \in SUPPORTED_EXTENSIONS
                       /\ f \notin cache}

\* _scan_folder lines 136-153: new_files, as a set.
NewFiles(fl, cache) == {f \in Candidates(fl, cache) : is_file_ready(fl[f])}

\* iterdir yields the entries in an order of its own.
RECURSIVE Orders(_)
Orders(S) ==
    IF S = {} THEN {<<>>}
    ELSE UNION {{<<f>> \o q : q \in Orders(S \ {f})} : f \in S}

\* The state a thread returns to when its call of _scan_folder ends.
Resting(s) == IF s = RouteThread THEN "idle" ELSE "waiting"

\* _scan_folder lines 128-155 on thread s.  raises: iterdir raises; the
\* exception leaves _scan_folder and the caller appends message kind, and
\* trims the log when trim is set.
ScanFolder(s, raises, kind, trim) ==
    IF ~folder.exists
    THEN /\ hist' = Event("scan", s, NULL, "no_folder", {})
         /\ UNCHANGED <<watcher, threads>>
    ELSE IF raises
    THEN /\ watcher' = [watcher EXCEPT !.errors =
                           IF trim
                           THEN KeepLast(Append(@, ErrorMessage(kind, NULL)), ErrorLogSize)
                           ELSE Append(@, ErrorMessage(kind, NULL))]
         /\ hist' = Event("scan", s, NULL, "raised", {})
         /\ UNCHANGED threads
    ELSE LET cand == Candidates(folder.files, watcher.processed_files)
             new == NewFiles(folder.files, watcher.processed_files)
         IN  \E order \in Orders(new) :
                /\ watcher' = [watcher EXCEPT !.files_in_queue = Len(order)]
                /\ threads' = [threads EXCEPT ![s] =
                                  [pc |-> IF order = <<>> THEN Resting(s)
                                          ELSE "scanning",
                                   queue |-> order]]
                /\ hist' = Event("scan", s, NULL, "listed", cand \ new)

\* Mutant of StartReturnsEarly: start does not look at is_running.
StartNeverReturnsEarly(w) == FALSE

\* start lines 78-80
StartReturnsEarly(w) == w.is_running

\* start lines 76-98.  mk: mkdir of a missing watch folder succeeds.
StartBody(mk) ==
    /\ threads[RouteThread].pc = "idle"
    /\ IF StartReturnsEarly(watcher)
       THEN /\ hist' = Event("start", RouteThread, NULL, "noop", {})
            /\ UNCHANGED <<watcher, stop_event, threads, folder>>
       ELSE IF ~folder.exists /\ ~mk
       THEN /\ Len(watcher.errors) <= ErrorLogSize
            /\ watcher' = [watcher EXCEPT !.errors =
                              Append(@, ErrorMessage("mkdir", NULL))]
            /\ hist' = Event("start", RouteThread, NULL, "mkdir_failed", {})
            /\ UNCHANGED <<stop_event, threads, folder>>
       ELSE /\ ThreadCount < MaxThreads
            /\ folder' = [folder EXCEPT !.exists = TRUE]
            /\ stop_event' = FALSE
            /\ threads' = [threads EXCEPT ![ThreadCount + 1].pc = "waiting"]
            /\ watcher' = [watcher EXCEPT !.is_running = TRUE]
            /\ hist' = Event("start", RouteThread, NULL, "started", {})
    /\ UNCHANGED <<faxes, feedback, clock, last, intake, done, overrideCount,
                   call, sessions, settings, ticks>>

\* POST /watcher/start without watch_folder, the global watcher constructed.
Start(mk) ==
    /\ StartBody(mk)
    /\ UNCHANGED global_watcher

\* stop lines 102-105: return when not running, else set the event.
StopSignal ==
    /\ threads[RouteThread].pc = "idle"
    /\ IF ~watcher.is_running
       THEN /\ hist' = Event("stop", RouteThread, NULL, "noop", {})
            /\ UNCHANGED <<stop_event, threads>>
       ELSE /\ stop_event' = TRUE
            /\ threads' = [threads EXCEPT ![RouteThread].pc = "joining"]
            /\ hist' = Event("stop", RouteThread, NULL, "signalled", {})
    /\ UNCHANGED <<faxes, feedback, clock, last, intake, done, overrideCount,
                   call, sideVars, watcher, folder, ticks>>

\* stop lines 106-108: join(timeout=5) returns when the thread has ended, or
\* after five seconds while the thread is still inside a call of
\* _scan_folder; then is_running is cleared.
StopJoin ==
    /\ threads[RouteThread].pc = "joining"
    /\ threads[ThreadCount].pc \in {"dead", "scanning"}
    /\ watcher' = [watcher EXCEPT !.is_running = FALSE]
    /\ threads' = [threads EXCEPT ![RouteThread].pc = "idle"]
    /\ hist' = Event("stop", RouteThread, NULL,
                     IF threads[ThreadCount].pc = "dead" THEN "joined"
                     ELSE "timed_out", {})
    /\ UNCHANGED <<faxes, feedback, clock, last, intake, done, overrideCount,
                   call, sideVars, stop_event, folder, ticks>>

\* Mutant of LoopContinues: the loop does not look at the event.
LoopIgnoresStop(ev) == TRUE

\* _watch_loop line 113
LoopContinues(ev) == ~ev

\* _watch_loop lines 113-121: the condition holds and _scan_folder is called.
WatchLoopTick(t, raises) ==
    /\ t \in LoopThreads
    /\ threads[t].pc = "waiting"
    /\ LoopContinues(stop_event)
    /\ ticks < MaxTicks
    /\ ScanFolder(t, raises, "scan", TRUE)
    /\ ticks' = ticks + 1
    /\ UNCHANGED <<faxes, feedback, clock, last, intake, done, overrideCount,
                   call, sideVars, stop_event, folder>>

\* _watch_loop line 113: the condition fails and the thread ends.
WatchLoopExit(t) ==
    /\ t \in LoopThreads
    /\ threads[t].pc = "waiting"
    /\ ~LoopContinues(stop_event)
    /\ threads' = [threads EXCEPT ![t].pc = "dead"]
    /\ hist' = Event("exit", t, NULL, NULL, {})
    /\ UNCHANGED <<faxes, feedback, clock, last, intake, done, overrideCount,
                   call, sideVars, watcher, stop_event, folder, ticks>>

\* manual_scan
ManualScan(raises) ==
    /\ threads[RouteThread].pc = "idle"
    /\ IF watcher.is_running
       THEN /\ hist' = Event("manual_scan", RouteThread, NULL, "noop", {})
            /\ UNCHANGED <<watcher, threads, ticks>>
       ELSE /\ ticks < MaxTicks
            /\ raises => Len(watcher.errors) <= ErrorLogSize
            /\ ScanFolder(RouteThread, raises, "manual", FALSE)
            /\ ticks' = ticks + 1
    /\ UNCHANGED <<faxes, feedback, clock, last, intake, done, overrideCount,
                   call, sideVars, stop_event, folder>>

\* Mutant of RestAfterFailure: the exception of a file ends the scan.
RestAfterFailureAborts(queue) == <<>>

\* _scan_folder lines 158-165: the handler is inside the for loop, which goes
\* on with the files after the one that failed.
RestAfterFailure(queue) == Tail(queue)

\* file_path.stem
Stem(f) ==
    CASE f = "a.pdf" -> "a" [] f = "b.tif" -> "b" [] OTHER -> "notes"

\* _move_to_processed lines 237-245: the name under which the file goes into
\* the processed subfolder that holds names: its own, or stem_k.suffix with
\* the first k from 1 on that is not there.
DestPath(names, f) ==
    IF f \notin names THEN f
    ELSE LET Name(k) == Stem(f) \o "_" \o ToString(k) \o Suffix(f)
             k == CHOOSE i \in 1..(Cardinality(names) + 1) :
                     /\ Name(i) \notin names
                     /\ \A j \in 1..(i - 1) : Name(j) \in names
         IN  Name(k)

\* _move_to_processed: the rename takes the file out of the watch folder
\* and puts it into the processed subfolder; an exception is logged and
\* swallowed.
move_to_processed(fd, f, moved) ==
    IF moved
    THEN [fd EXCEPT !.files[f] = "absent",
                    !.processed = @ \cup {DestPath(@, f)}]
    ELSE fd

\* _scan_folder lines 158-165 with _process_file: the next file of new_files
\* on thread s.  run: the course of process_new_fax.  The rename of
\* _move_to_processed succeeds or not.
ProcessFile(s, run) ==
    /\ threads[s].pc = "scanning"
    /\ LET f == Head(threads[s].queue)
           r == IF folder.files[f] \in {"absent", "locked"}
                THEN [faxes |-> faxes, outcome |-> "OSError",
                      generation |-> "not_called"]
                ELSE process_new_fax(faxes, ContentOf(f), run.ex, run.gen,
                                     run.sumOk)
           rest == IF r.outcome \in {"created", "duplicate"}
                   THEN Tail(threads[s].queue)
                   ELSE RestAfterFailure(threads[s].queue)
       IN  /\ faxes' = r.faxes
           /\ watcher' =
                 IF r.outcome \in {"created", "duplicate"}
                 THEN [watcher EXCEPT !.processed_files = @ \cup {f}]
                 ELSE [watcher EXCEPT !.errors =
                          KeepLast(Append(@, ErrorMessage("file", f)), ErrorLogSize)]
           /\ IF r.outcome = "created"
              THEN \E moved \in BOOLEAN :
                      folder' = move_to_processed(folder, f, moved)
              ELSE UNCHANGED folder
           /\ threads' = [threads EXCEPT ![s] =
                             [pc |-> IF rest = <<>> THEN Resting(s) ELSE "scanning",
                              queue |-> rest]]
           /\ hist' = [Event("file", s, f,
                             IF r.outcome \in {"created", "duplicate"}
                             THEN r.outcome ELSE "raised", {})
                       EXCEPT !.error = IF r.outcome \in {"created", "duplicate"}
                                        THEN NULL ELSE r.outcome,
                              !.rearrived = @ \ {f}]
    /\ UNCHANGED <<feedback, clock, last, intake, done, overrideCount, call, sideVars,
                   stop_event, ticks>>

\* The world outside: a sender starts writing a file, finishes it, another
\* program opens it exclusively, and lets it go.
FileEvent(f) ==
    /\ folder.exists
    /\ folder' = [folder EXCEPT !.files[f] =
                     CASE @ = "absent" -> "growing"
                       [] @ = "growing" -> "stable"
                       [] @ = "stable" -> "locked"
                       [] OTHER -> "stable"]
    /\ hist' = Event("file_event", RouteThread, f, NULL, {})
    /\ UNCHANGED <<faxes, feedback, clock, last, intake, done, overrideCount,
                   call, sideVars, watcher, stop_event, threads, ticks>>

\* The world outside: a sender puts a new, complete file at a path that
\* processed_files holds (the earlier file was taken away, or is replaced).
Rearrive(f) ==
    /\ folder.exists
    /\ f \in watcher.processed_files
    /\ f \notin hist.rearrived
    /\ folder' = [folder EXCEPT !.files[f] = "stable"]
    /\ hist' = [Event("rearrive", RouteThread, f, NULL, {})
                EXCEPT !.rearrived = @ \cup {f}]
    /\ UNCHANGED <<faxes, feedback, clock, last, intake, done, overrideCount,
                   call, sideVars, watcher, stop_event, threads, ticks>>

\* The world outside: the watch folder is removed, with what it holds.
RemoveFolder ==
    /\ folder.exists
    /\ folder' = [exists |-> FALSE, files |-> [f \in Listing |-> "absent"],
                  processed |-> {}]
    /\ hist' = Event("remove_folder", RouteThread, NULL, NULL, {})
    /\ UNCHANGED <<faxes, feedback, clock, last, intake, done, overrideCount,
                   call, sideVars, watcher, stop_event, threads, ticks>>

(* ------------------------------- Init --------------------------------- *)
\* documents.db outlives the process: the faxes table holds the rows of
\* earlier runs, here two rows awaiting review, and no feedback.
InitProcess ==
    /\ faxes = (1 :> NewFax(get_file_hash(1), "discharge_summary", 85, FALSE, 0))
            @@ (2 :> NewFax(get_file_hash(2), "census", 60, TRUE, 75))
    /\ feedback = {}
    /\ clock = 0
    /\ last = Call(0, "none", 0, <<>>, NULL, NoRequest, NULL, 0, 0)
    /\ intake = [p \in Callers |-> [pc |-> "idle", content |-> 0]]
    /\ done = [p \in Callers |-> <<>>]
    /\ overrideCount = [id \in FaxIds |-> 0]
    /\ call = NoCall
    /\ InitWatcher
    /\ sessions = [w \in Sessions |-> NoSession]
    /\ settings = {}

\* The state in which the specifications of the tables and of the watcher
\* begin: the global watcher has been constructed without a folder.
Init ==
    /\ InitProcess
    /\ global_watcher = [constructed |-> TRUE, watch_folder |-> "./fax_inbox",
                         requested |-> NULL]

(* --------------------------- specifications --------------------------- *)
\* The review workflow on the persisted tables.
Next ==
    \/ \E id \in OpIds, action \in Actions :
          \E req \in Requests(action) : ReviewFax(id, action, req)
    \/ \E ids \in BatchIds, action \in Actions \cup {"reject"} :
          \E req \in Requests(action) : BatchReviewFaxes(ids, action, req)
    \/ \E id \in OpIds : MarkFaxProcessed(id)
    \/ \E id \in OpIds : DeleteFax(id)
    \/ \E id \in OpIds, fr \in FeedbackRequests : SubmitFeedback(id, fr)

Spec == Init /\ [][Next]_vars

\* The review workflow with the statistics read between its calls.
NextStats ==
    \/ Next
    \/ GetFaxStats

SpecStats == Init /\ [][NextStats]_vars

\* The settings routes.
NextSettings ==
    \/ \E u \in Updates : UpdateSettings(u)
    \/ GetSettings

SpecSettings == Init /\ [][NextSettings]_vars

\* The review-side calls of two server processes on one database.
NextSessions ==
    \/ \E w \in Sessions, op \in SessionOps, id \in SessionIds :
          \E req \in SessionRequests(op) : SessionLoad(w, op, id, req)
    \/ \E w \in Sessions : SessionCommit(w)

SpecSessions == Init /\ [][NextSessions]_vars

\* Intake: the callers of process_new_fax, interleaved with each other.
NextIntake ==
    \/ \E p \in Callers, c \in Contents : QueryDuplicate(p, c)
    \/ \E p \in Callers, ex \in Extractions, gen \in Generations, sumOk \in BOOLEAN :
          ProcessAndPersist(p, ex, gen, sumOk)

SpecIntake == Init /\ [][NextIntake]_vars

\* Single calls of the intake functions, one after the other.
NextCall ==
    \/ \E c \in Contents, ex \in Extractions, gen \in Generations, sumOk \in BOOLEAN :
          ProcessNewFax(c, ex, gen, sumOk)
    \/ \E ex \in Extractions, gen \in Generations : CategorizeFax(ex, gen)
    \/ \E ex \in Extractions, category \in FaxCategory : DetectUrgency(ex, category)

SpecCall == Init /\ [][NextCall]_vars

\* The watcher: the routes, the loop threads and the senders of files.
NextWatcher ==
    \/ \E mk \in BOOLEAN : Start(mk)
    \/ StopSignal
    \/ StopJoin
    \/ \E raises \in BOOLEAN : ManualScan(raises)
    \/ \E t \in LoopThreads, raises \in BOOLEAN : WatchLoopTick(t, raises)
    \/ \E t \in LoopThreads : WatchLoopExit(t)
    \/ \E s \in {RouteThread} \cup LoopThreads, run \in FileRuns :
          ProcessFile(s, run)
    \/ \E f \in Arriving : FileEvent(f)

SpecWatcher == Init /\ [][NextWatcher]_vars

\* The watcher with threads that keep running: a loop thread that can take
\* a step of its own (handle the next file of its tick, leave the loop)
\* takes it; process_new_fax returns or raises.
FairLoops ==
    \A t \in LoopThreads :
        /\ WF_vars(WatchLoopExit(t))
        /\ WF_vars(\E run \in FileRuns : ProcessFile(t, run))

SpecWatcherFair == Init /\ [][NextWatcher]_vars /\ FairLoops

\* The watcher with senders that use a path again, and with threads that
\* keep running: a thread inside a call of _scan_folder handles the next
\* file of its list.
NextRearrival ==
    \/ NextWatcher
    \/ \E f \in FaxPaths : Rearrive(f)

FairScans ==
    /\ \A s \in {RouteThread} \cup LoopThreads :
          WF_vars(\E run \in FileRuns : ProcessFile(s, run))
    /\ \A t \in LoopThreads :
          WF_vars(\E raises \in BOOLEAN : WatchLoopTick(t, raises))

SpecRearrival == Init /\ [][NextRearrival]_vars /\ FairScans

\* The watcher with a watch folder that can go away and no sender of files:
\* the runs in which start fails to create the folder.
NextErrorLog ==
    \/ \E mk \in BOOLEAN : Start(mk)
    \/ StopSignal
    \/ StopJoin
    \/ \E raises \in BOOLEAN : ManualScan(raises)
    \/ \E t \in LoopThreads, raises \in BOOLEAN : WatchLoopTick(t, raises)
    \/ \E t \in LoopThreads : WatchLoopExit(t)
    \/ \E s \in {RouteThread} \cup LoopThreads, run \in FileRuns :
          ProcessFile(s, run)
    \/ RemoveFolder

SpecErrorLog == Init /\ [][NextErrorLog]_vars

(***************************************************************************)
(* The module global _watcher (folder_watcher.py lines 265-290).  The      *)
(* module is imported with _watcher = None; get_watcher and start_watcher  *)
(* construct the one FaxFolderWatcher of the process on first use, and     *)
(* nothing ever sets the global again.  global_watcher.requested is        *)
(* history: the watch_folder argument of the last start_watcher call.      *)
(***************************************************************************)

\* The watch_folder query parameter of POST /watcher/start (routes/faxes.py
\* line 265): absent, empty, or a path.
WatchFolders == {NULL, "", "./fax_inbox", "/mnt/faxes"}

\* FaxFolderWatcher.__init__ lines 52-60: the parameter when it is truthy,
\* else the watch_folder of get_settings().
Construct(wf) ==
    [constructed |-> TRUE,
     watch_folder |-> IF wf \notin {NULL, ""} THEN wf
                      ELSE get_settings(settings).watch_folder,
     requested |-> global_watcher.requested]

\* get_watcher as GET /watcher/status calls it: construct when None.
GetWatcher ==
    /\ threads[RouteThread].pc = "idle"
    /\ ~global_watcher.constructed
    /\ global_watcher' = Construct(NULL)
    /\ UNCHANGED <<faxes, feedback, clock, last, intake, done, overrideCount,
                   call, sessions, settings, watcherVars>>

\* start_watcher(watch_folder): the argument reaches the constructor only
\* when the global is None; then start() of whichever instance there is.
StartWatcher(wf, mk) ==
    /\ StartBody(mk)
    /\ global_watcher' =
          [(IF global_watcher.constructed THEN global_watcher
            ELSE Construct(wf)) EXCEPT !.requested = wf]

InitModule ==
    /\ InitProcess
    /\ global_watcher = [constructed |-> FALSE, watch_folder |-> NULL,
                         requested |-> NULL]

\* stop_watcher lines 286-290: stop() only if the global is set.
StopWatcher ==
    /\ global_watcher.constructed
    /\ StopSignal

\* POST /watcher/scan: manual_scan of the instance get_watcher returns (its
\* construction of a missing instance is the step GetWatcher).
TriggerScan(raises) ==
    /\ global_watcher.constructed
    /\ ManualScan(raises)

NextGlobal ==
    \/ GetWatcher
    \/ \E wf \in WatchFolders, mk \in BOOLEAN : StartWatcher(wf, mk)
    \/ StopWatcher
    \/ StopJoin
    \/ \E raises \in BOOLEAN : TriggerScan(raises)
    \/ \E t \in LoopThreads, raises \in BOOLEAN : WatchLoopTick(t, raises)
    \/ \E t \in LoopThreads : WatchLoopExit(t)
    \/ \E s \in {RouteThread} \cup LoopThreads, run \in FileRuns :
          ProcessFile(s, run)
    \/ \E f \in Arriving : FileEvent(f)

SpecGlobal == InitModule /\ [][NextGlobal]_vars

(* ------------------------------- claims ------------------------------- *)
Last(q) == q[Len(q)]

\* A collaborator (extraction tool, generation service) failed in the call.
CollaboratorFailed(outcome) == outcome \in {"ToolUnavailable", "GenerationError"}

\* C1 (as claimed): when a caller submits the same content in two calls in
\* sequence and no collaborator fails in either, the second call returns the
\* duplicate outcome and exactly one row holds the content's hash.
C1_DedupIdempotence ==
    \A p \in Callers : \A i \in 1..(Len(done[p]) - 1) :
        (/\ done[p][i].content = done[p][i + 1].content
         /\ ~CollaboratorFailed(done[p][i].outcome)
         /\ ~CollaboratorFailed(done[p][i + 1].outcome))
        => /\ done[p][i + 1].outcome = "duplicate"
           /\ done[p][i + 1].records = 1

\* C2: in every reachable state, whatever the interleaving of the callers of
\* process_new_fax, no two rows of the faxes table hold the same content hash.
C2_HashUnique ==
    \A i \in DOMAIN faxes, j \in DOMAIN faxes :
        faxes[i].file_hash = faxes[j].file_hash => i = j

\* C2 witness: two callers were between query and commit on the same content
\* at the same time, and both calls have completed without the duplicate
\* outcome.
C2_Witness ==
    \E p \in Callers, q \in Callers, i \in 1..MaxCalls, j \in 1..MaxCalls :
        /\ p # q
        /\ i <= Len(done[p])
        /\ j <= Len(done[q])
        /\ done[p][i].concurrent
        /\ done[q][j].content = done[p][i].content
        /\ done[p][i].outcome # "duplicate"
        /\ done[q][j].outcome # "duplicate"
        /\ intake[q].pc = "idle"

IsCall(op) == last'.seq # last.seq /\ last'.op = op

\* C3 (as claimed): once the status of a row is processed, no step changes
\* it to another value; the row can only be deleted.
C3_ProcessedTerminal ==
    [][\A id \in DOMAIN faxes :
          faxes[id].status = "processed"
          => (id \notin DOMAIN faxes' \/ faxes'[id].status = "processed")]_vars

OverrideFeedbackOf(id) ==
    {f \in feedback : f.fax_id = id /\ f.origin = "override"}

\* C4: every successful override(id, category, reason, reviewer) adds exactly
\* one feedback row (id, the row's ai_category, category) and sets
\* final_category = category, was_overridden, status = overridden,
\* override_reason = reason, reviewed_by = reviewer, reviewed_at = now; and a
\* fax overridden k times since it was created has exactly k feedback rows
\* that overrides added.
C4_OverrideAddsOneFeedback ==
    /\ [](\A id \in DOMAIN faxes :
             Cardinality(OverrideFeedbackOf(id)) = overrideCount[id])
    /\ [][(IsCall("review") /\ last'.action = "override" /\ last'.outcome = "ok")
          => LET id == last'.fax_id
                 added == feedback' \ feedback
             IN  /\ id \in DOMAIN faxes
                 /\ feedback \subseteq feedback'
                 /\ Cardinality(added) = 1
                 /\ \A f \in added :
                       /\ f.fax_id = id
                       /\ f.ai_category = faxes[id].ai_category
                       /\ f.correct_category = last'.category
                 /\ faxes'[id].final_category = last'.category
                 /\ faxes'[id].was_overridden = TRUE
                 /\ faxes'[id].status = "overridden"
                 /\ faxes'[id].override_reason = last'.reason
                 /\ faxes'[id].reviewed_by = last'.reviewer
                 /\ faxes'[id].reviewed_at = At(clock')]_vars

\* C4 witness: a second successful override of the same fax has just run.
C4_Witness ==
    /\ last.op = "review" /\ last.action = "override" /\ last.outcome = "ok"
    /\ last.fax_id \in DOMAIN faxes
    /\ overrideCount[last.fax_id] = 2

\* C5: override of an existing row without a category raises the validation
\* error and changes neither table.
C5_OverrideNeedsCategory ==
    [][(/\ IsCall("review")
        /\ last'.action = "override"
        /\ last'.category = NULL
        /\ last'.fax_id \in DOMAIN faxes)
       => /\ last'.outcome = "ValueError"
          /\ faxes' = faxes
          /\ feedback' = feedback]_vars

\* C5 witness: an override without category was just refused on a row that an
\* earlier review had approved.
C5_Witness ==
    /\ last.op = "review" /\ last.action = "override"
    /\ last.category = NULL /\ last.outcome = "ValueError"
    /\ last.fax_id \in DOMAIN faxes
    /\ faxes[last.fax_id].status = "approved"
    /\ faxes[last.fax_id].reviewed_by = "alice"

\* C6: approve(id, reviewer) of an existing row, whatever its status, succeeds
\* and leaves final_category = ai_category, was_overridden = false,
\* status = approved, reviewed_by = reviewer and reviewed_at = now, and adds
\* no feedback row.
C6_Approve ==
    [][(/\ IsCall("review")
        /\ last'.action = "approve"
        /\ last'.fax_id \in DOMAIN faxes)
       => LET id == last'.fax_id
          IN  /\ last'.outcome = "ok"
              /\ id \in DOMAIN faxes'
              /\ faxes'[id].final_category = faxes[id].ai_category
              /\ faxes'[id].ai_category = faxes[id].ai_category
              /\ faxes'[id].was_overridden = FALSE
              /\ faxes'[id].status = "approved"
              /\ faxes'[id].reviewed_by = last'.reviewer
              /\ faxes'[id].reviewed_at = At(clock')
              /\ feedback' = feedback]_vars

\* C6 witness: an approve has just run on a row that had been overridden
\* to another category.
C6_Witness ==
    /\ last.op = "review" /\ last.action = "approve" /\ last.outcome = "ok"
    /\ last.fax_id \in DOMAIN faxes
    /\ overrideCount[last.fax_id] > 0
    /\ \E f \in OverrideFeedbackOf(last.fax_id) :
          f.correct_category # f.ai_category

\* The positions of ids whose fax exists in table fx.
ValidPositions(ids, fx) == {i \in 1..Len(ids) : ids[i] \in DOMAIN fx}

\* C8: batch_review_faxes on N ids returns (processed, failed) with
\* processed + failed = N and raises nothing; with approve, or override with
\* a category, an id without a row counts as one failed item and every id
\* with a row is reviewed: processed is the number of ids with a row, and the
\* row of each carries the review.
C8_BatchIsolation ==
    [][IsCall("batch")
       => /\ last'.outcome = "returned"
          /\ last'.processed + last'.failed = Len(last'.ids)
          /\ (last'.action = "approve"
              \/ (last'.action = "override" /\ last'.category # NULL))
             => /\ last'.processed = Cardinality(ValidPositions(last'.ids, faxes))
                /\ \A i \in ValidPositions(last'.ids, faxes) :
                      /\ last'.ids[i] \in DOMAIN faxes'
                      /\ faxes'[last'.ids[i]].status =
                            (IF last'.action = "approve"
                             THEN "approved" ELSE "overridden")
                      /\ faxes'[last'.ids[i]].reviewed_at = At(clock')]_vars

\* C8 witness: a batch of three ids, the second without a row, has returned
\* (2, 1).
C8_Witness ==
    /\ last.op = "batch" /\ last.ids = <<1, 3, 2>>
    /\ last.action = "override"
    /\ 3 \notin DOMAIN faxes
    /\ last.processed = 2 /\ last.failed = 1
    /\ faxes[1].status = "overridden" /\ faxes[2].status = "overridden"

\* C9: approve, override, mark_processed and delete on an id without a row
\* report not found, also when the override carries no category, and change
\* neither table.
C9_NotFound ==
    [][(/\ (IsCall("review") \/ IsCall("mark_processed") \/ IsCall("delete"))
        /\ last'.fax_id \notin DOMAIN faxes)
       => /\ last'.outcome = "not_found"
          /\ faxes' = faxes
          /\ feedback' = feedback]_vars

\* C9 witness: an override without category on an id without a row has
\* reported not found, with feedback rows in the table.
C9_Witness ==
    /\ last.op = "review" /\ last.action = "override" /\ last.category = NULL
    /\ last.fax_id \notin DOMAIN faxes
    /\ last.outcome = "not_found"
    /\ feedback # {}

\* C10: delete(id) of an existing row, whatever its status, removes the row
\* and the feedback rows of that fax, and nothing else.
C10_DeleteCascade ==
    [][(IsCall("delete") /\ last'.fax_id \in DOMAIN faxes)
       => LET id == last'.fax_id
          IN  /\ last'.outcome = "ok"
              /\ DOMAIN faxes' = DOMAIN faxes \ {id}
              /\ \A i \in DOMAIN faxes' : faxes'[i] = faxes[i]
              /\ feedback' = {f \in feedback : f.fax_id # id}]_vars

\* C10 witness: a delete has just removed a fax with a feedback row (row 1 of
\* the feedback table is gone) while the feedback row of another fax stays.
C10_Witness ==
    /\ last.op = "delete" /\ last.outcome = "ok"
    /\ \E f \in feedback : f.id = 2
    /\ \A f \in feedback : f.id # 1

(* The claims on single calls read the call from call: in SpecCall a step
   that is not a stuttering step changes call. *)
IsCallOf(fn) == call' # call /\ call'.fn = fn

\* C11 (as claimed): a call of process_new_fax on a readable file of at least
\* 50 characters whose hash no row holds, in which the generation call of the
\* categorization raises or returns a response without JSON object and
\* without category name (and the one of the summary returns), adds a row
\* for the file with the default classification: category unknown,
\* confidence 0.5.
C11_GenerationFailureTolerated ==
    [][(/\ IsCallOf("process_new_fax")
        /\ call'.text.ok /\ call'.text.long
        /\ FaxesWithHash(faxes, get_file_hash(call'.content)) = {}
        /\ (~call'.gen.ok \/ (~call'.gen.dict /\ call'.gen.mentions = ""))
        /\ call'.sumOk)
       => \E id \in DOMAIN faxes' \ DOMAIN faxes :
             /\ faxes'[id].file_hash = get_file_hash(call'.content)
             /\ faxes'[id].ai_category = "unknown"
             /\ faxes'[id].ai_confidence = 50]_vars

\* The threads inside a call of _scan_folder.
Scanning == {s \in DOMAIN threads : threads[s].pc = "scanning"}

\* C12 (as claimed): in every reachable state, whatever the interleaving of
\* start, stop and manual_scan with the loop threads, at most one call of
\* _scan_folder is executing.
C12_TicksNeverOverlap == Cardinality(Scanning) <= 1

Range(q) == {q[i] : i \in 1..Len(q)}

(* The watcher claims read the step from ticks and hist: a step begins a call
   of _scan_folder exactly when ticks' = ticks + 1, and hist' names the
   thread; a step handles a file of new_files exactly when the queue of a
   thread loses its head. *)
IsScan == ticks' = ticks + 1

HandlesFile(s) ==
    /\ threads[s].pc = "scanning"
    /\ threads'[s].queue # threads[s].queue

\* C13: in a call of _scan_folder, a candidate whose two size samples differ
\* or that cannot be opened is not put on new_files (so it is not passed to
\* process_new_fax in that call) and not added to processed_files; a
\* candidate with equal samples that opens is put on new_files; and the call
\* passes every file of new_files, and no other, to process_new_fax before
\* it ends.  A file held back stays a candidate of every later call.
C13_StabilityGating ==
    /\ [][IsScan
          => LET s == hist'.by
                 cand == Candidates(folder.files, watcher.processed_files)
             IN  \A f \in cand :
                    IF folder.files[f] = "stable"
                    THEN hist'.outcome = "listed"
                         => f \in Range(threads'[s].queue)
                    ELSE /\ f \notin Range(threads'[s].queue)
                         /\ f \notin watcher'.processed_files
                         /\ f \in Candidates(folder'.files,
                                             watcher'.processed_files)]_vars
    /\ [][\A s \in DOMAIN threads :
             HandlesFile(s)
             => /\ hist'.kind = "file"
                /\ hist'.path = Head(threads[s].queue)
                /\ threads'[s].queue = Tail(threads[s].queue)
                /\ (threads'[s].pc # "scanning") = (threads'[s].queue = <<>>)]_vars

\* C13 witness: b.tif was held back by a call of _scan_folder while it was
\* growing, and a later call has just passed it to process_new_fax.
C13_Witness ==
    /\ hist.kind = "file"
    /\ hist.path = "b.tif"
    /\ "b.tif" \in hist.deferred

\* C14: when process_new_fax raises for a file of new_files, the step appends
\* one message for that file to the error log (trimmed to the last ten),
\* leaves the faxes table and processed_files as they were, goes on with the
\* rest of new_files, and leaves the thread in its loop.
C14_FileFailureIsolated ==
    [][\A s \in DOMAIN threads :
          (HandlesFile(s) /\ hist'.outcome = "raised")
          => LET f == Head(threads[s].queue)
             IN  /\ watcher'.errors =
                       KeepLast(Append(watcher.errors, ErrorMessage("file", f)),
                                ErrorLogSize)
                 /\ faxes' = faxes
                 /\ watcher'.processed_files = watcher.processed_files
                 /\ f \notin watcher'.processed_files
                 /\ threads'[s].queue = Tail(threads[s].queue)
                 /\ threads'[s].pc =
                       (IF Tail(threads[s].queue) # <<>> THEN "scanning"
                        ELSE Resting(s))]_vars

\* C14 witness: in the first tick b.tif failed and a.pdf, behind it on
\* new_files, has just been handled by the same loop thread.
C14_Witness ==
    /\ ticks = 1
    /\ hist.kind = "file" /\ hist.path = "a.pdf" /\ hist.outcome = "duplicate"
    /\ hist.by \in LoopThreads
    /\ watcher.errors = <<ErrorMessage("file", "b.tif")>>
    /\ watcher.processed_files = {"a.pdf"}
    /\ threads[hist.by].pc = "waiting"

\* C15 (as claimed): in every reachable state the error log of the watcher
\* holds at most ten messages, whichever path appended the last one.
C15_ErrorLogBounded == Len(watcher.errors) <= ErrorLogSize

\* The loop threads that have not ended.
LoopsAlive == {t \in LoopThreads : threads[t].pc \in {"waiting", "scanning"}}

\* C16 (as claimed): manual_scan runs _scan_folder only while no loop thread
\* is running; while one is, a tick in flight included, it scans nothing.
C16_ManualScanOnlyWhenLoopStopped ==
    [][(IsScan /\ hist'.by = RouteThread) => LoopsAlive = {}]_vars

\* What a route call can change: everything of the watcher but its history.
WatcherUnchanged ==
    /\ watcher' = watcher
    /\ stop_event' = stop_event
    /\ threads' = threads
    /\ folder' = folder
    /\ ticks' = ticks
    /\ faxes' = faxes

\* C17: start on a running watcher creates no thread and changes nothing;
\* stop on a stopped watcher changes nothing; a start that succeeds creates
\* one thread and leaves is_running true; a stop that returns leaves
\* is_running false.
C17_StartStopIdempotent ==
    /\ [][(hist'.kind = "start" /\ watcher.is_running)
          => (WatcherUnchanged /\ hist'.outcome = "noop")]_vars
    /\ [][(hist'.kind = "stop" /\ ~watcher.is_running)
          => (WatcherUnchanged /\ hist'.outcome = "noop")]_vars
    /\ [][(hist'.kind = "start" /\ hist'.outcome = "started")
          => /\ watcher'.is_running
             /\ LoopsAlive' = LoopsAlive \cup {ThreadCount + 1}
             /\ ThreadCount' = ThreadCount + 1]_vars
    /\ [][(hist'.kind = "stop" /\ threads'[RouteThread].pc = "idle")
          => ~watcher'.is_running]_vars

\* C17 witness: start has just returned early on a running watcher whose one
\* loop thread is inside a tick.
C17_Witness ==
    /\ hist.kind = "start" /\ hist.outcome = "noop"
    /\ watcher.is_running
    /\ ThreadCount = 1
    /\ threads[1].pc = "scanning"

\* C18: once stop has set the event, and until a start clears it, no loop
\* thread begins a tick; the signal leaves the tick in flight as it is; a
\* loop thread ends only between ticks, with no file of its tick left; and
\* the loop threads alive when the event is set all end (or a later start
\* clears the event first; until then no thread is created).
C18_CooperativeStop ==
    /\ [][(IsScan /\ hist'.by \in LoopThreads) => ~stop_event]_vars
    /\ [][hist'.kind = "stop"
          => \A t \in LoopThreads : threads'[t] = threads[t]]_vars
    /\ [][\A t \in LoopThreads :
             (threads[t].pc # "dead" /\ threads'[t].pc = "dead")
             => /\ threads[t].pc = "waiting"
                /\ threads[t].queue = <<>>
                /\ stop_event]_vars
    /\ (stop_event /\ LoopsAlive # {}) ~> (LoopsAlive = {} \/ ~stop_event)

\* C18 witness: the loop thread has just ended after a stop whose join had
\* timed out on the tick in flight: the tick ran to its end, then the loop
\* left.
C18_Witness ==
    /\ hist.kind = "exit"
    /\ threads[hist.by].pc = "dead"
    /\ stop_event
    /\ ~watcher.is_running
    /\ threads[RouteThread].pc = "idle"
    /\ ThreadCount = 1

\* C19 (as claimed): when the response of the generation call holds no JSON
\* object, or one whose category string is no known category, and the
\* response contains a category name, categorize_fax returns the first such
\* category, not unknown.
C19_KeywordFallback ==
    [][(/\ IsCallOf("categorize_fax")
        /\ call'.text.long
        /\ call'.gen.ok
        /\ (~call'.gen.dict \/ call'.gen.category \notin CategoryMapKeys)
        /\ call'.gen.mentions # "")
       => /\ call'.outcome = "returned"
          /\ call'.value.category = call'.gen.mentions]_vars

\* C20 (as claimed): a call of process_new_fax on a readable file whose hash
\* no row holds and whose text has fewer than 50 characters after trimming
\* adds a row for the file with category unknown, confidence 0.3,
\* is_urgent false and priority_score 0.
C20_ShortTextRecorded ==
    [][(/\ IsCallOf("process_new_fax")
        /\ call'.text.ok /\ ~call'.text.long
        /\ FaxesWithHash(faxes, get_file_hash(call'.content)) = {})
       => \E id \in DOMAIN faxes' \ DOMAIN faxes :
             /\ faxes'[id].file_hash = get_file_hash(call'.content)
             /\ faxes'[id].ai_category = "unknown"
             /\ faxes'[id].ai_confidence = 30
             /\ faxes'[id].is_urgent = FALSE
             /\ faxes'[id].priority_score = 0]_vars

\* C21: a call of categorize_fax on a text whose stripped form has fewer
\* than 50 characters makes no generate_text call, and neither does a call
\* of process_new_fax on a file with such a text.
C21_ShortTextNoGeneration ==
    [][((IsCallOf("categorize_fax") \/ IsCallOf("process_new_fax"))
        /\ call'.text.ok /\ ~call'.text.long)
       => call'.generation = "not_called"]_vars

\* C21 witness: categorize_fax has just been called on a short text while
\* the generation service was failing, and the failure was not met.
C21_Witness ==
    /\ call.fn = "categorize_fax"
    /\ ~call.text.long
    /\ ~call.gen.ok
    /\ call.generation = "not_called"
    /\ call.outcome # "GenerationError"

\* C22: for every response of the generation service (a confidence below 0,
\* above 1, missing or not a number included) categorize_fax returns a
\* confidence within 0..1 (0..100 hundredths), and the ai_confidence of
\* every row of the faxes table lies within the same range.
C22_ConfidenceInRange ==
    /\ [][(IsCallOf("categorize_fax") /\ call'.text.long /\ call'.gen.ok)
          => /\ call'.outcome = "returned"
             /\ call'.value.confidence \in 0..100]_vars
    /\ [](\A id \in DOMAIN faxes : faxes[id].ai_confidence \in 0..100)

\* C23: for every text that holds an urgency keyword and every category,
\* detect_urgency returns is_urgent = TRUE and a priority of at least 75.
C23_KeywordMakesUrgent ==
    [][(IsCallOf("detect_urgency") /\ call'.text.keyword)
       => /\ call'.outcome = "returned"
          /\ call'.value.is_urgent
          /\ call'.value.priority >= 75]_vars

\* The largest of the floors that apply to a text and a category, as the
\* claim C24 lists them.
PriorityFloor(text, category) ==
    LET floors == {0}
                  \cup (IF category = "urgent" THEN {50} ELSE {})
                  \cup (IF text.keyword THEN {75} ELSE {})
                  \cup (IF category = "prescriptions" THEN {60} ELSE {})
                  \cup (IF category = "referrals" THEN {55} ELSE {})
                  \cup (IF category = "lab_results" THEN {50} ELSE {})
    IN  CHOOSE m \in floors : \A f \in floors : f <= m

\* C24: detect_urgency returns the largest applicable floor as priority (0
\* when none applies), is_urgent exactly when the category is urgent or a
\* keyword matches, and a priority within 0..75.
C24_PriorityIsLargestFloor ==
    [][IsCallOf("detect_urgency")
       => /\ call'.outcome = "returned"
          /\ call'.value.priority = PriorityFloor(call'.text, call'.category)
          /\ call'.value.is_urgent
               = (call'.category = "urgent" \/ call'.text.keyword)
          /\ call'.value.priority \in 0..75]_vars

\* C25: get_fax_stats returns total_reviewed = approved + overridden and
\* accuracy_rate = approved / total_reviewed * 100, which is 0.0 when
\* nothing was reviewed.
C25_AccuracyRate ==
    [][IsCallOf("get_fax_stats")
       => /\ call'.outcome = "returned"
          /\ call'.value.total_reviewed
               = StatusCount(faxes, "approved") + StatusCount(faxes, "overridden")
          /\ LET a == call'.value.accuracy_rate
                 t == call'.value.total_reviewed
             IN  IF t = 0 THEN a[1] = 0
                 ELSE a[1] * t = StatusCount(faxes, "approved") * 100 * a[2]]_vars

\* C26: after any sequence of operations get_fax_stats returns a count for
\* each of the five statuses, and the five counts add up to total_faxes.
C26_StatusCountsAddUp ==
    [][IsCallOf("get_fax_stats")
       => /\ call'.outcome = "returned"
          /\ FaxStatus \subseteq DOMAIN call'.value
          /\ call'.value.pending + call'.value.categorized
               + call'.value.approved + call'.value.overridden
               + call'.value.processed = call'.value.total_faxes
          /\ call'.value.total_faxes = Cardinality(DOMAIN faxes)]_vars

\* C27: the category counts of get_fax_stats count every row once, under
\* its final_category when that is set and under its ai_category otherwise.
C27_CategoryCountsByFinal ==
    [][IsCallOf("get_fax_stats")
       => /\ call'.outcome = "returned"
          /\ \A id \in DOMAIN faxes :
                LET row == faxes[id]
                    c == IF row.final_category # NULL
                         THEN row.final_category ELSE row.ai_category
                IN  /\ c \in DOMAIN call'.value.category_counts
                    /\ call'.value.category_counts[c]
                         = Cardinality({i \in DOMAIN faxes :
                              (IF faxes[i].final_category # NULL
                               THEN faxes[i].final_category
                               ELSE faxes[i].ai_category) = c})]_vars

\* C28: approving a row that is already approved succeeds, and leaves its
\* status, final_category and was_overridden, and the whole feedback table,
\* as the first approval left them.
C28_ReapprovalIdempotent ==
    [][(IsCall("review") /\ last'.action = "approve"
        /\ last'.fax_id \in DOMAIN faxes
        /\ faxes[last'.fax_id].status = "approved")
       => /\ last'.outcome = "ok"
          /\ DOMAIN faxes' = DOMAIN faxes
          /\ LET old == faxes[last'.fax_id]
                 new == faxes'[last'.fax_id]
             IN  /\ new.status = old.status
                 /\ new.final_category = old.final_category
                 /\ new.was_overridden = old.was_overridden
                 /\ new.ai_category = old.ai_category
          /\ \A i \in DOMAIN faxes \ {last'.fax_id} : faxes'[i] = faxes[i]
          /\ feedback' = feedback]_vars

\* C28 witness: an approved row has just been approved again, by a request
\* without reviewer, and is approved.
C28_Witness ==
    /\ last.op = "review"
    /\ last.action = "approve"
    /\ last.before = "approved"
    /\ last.outcome = "ok"
    /\ last.reviewer = NULL
    /\ faxes[last.fax_id].status = "approved"
    /\ faxes[last.fax_id].final_category = faxes[last.fax_id].ai_category

\* C29: mark_fax_processed on an existing row succeeds whatever the status
\* of the row, sets the status to processed and changes no other column of
\* the row, no other row and no feedback row.
C29_MarkProcessedFrame ==
    [][(IsCall("mark_processed") /\ last'.fax_id \in DOMAIN faxes)
       => /\ last'.outcome = "ok"
          /\ faxes' = [faxes EXCEPT ![last'.fax_id].status = "processed"]
          /\ feedback' = feedback]_vars

\* C29 witness: an overridden row with its feedback has just been marked
\* processed and still holds what the override wrote.
C29_Witness ==
    /\ last.op = "mark_processed"
    /\ last.outcome = "ok"
    /\ last.before = "overridden"
    /\ faxes[last.fax_id].status = "processed"
    /\ faxes[last.fax_id].was_overridden
    /\ faxes[last.fax_id].override_reason # NULL
    /\ faxes[last.fax_id].reviewed_by # NULL
    /\ FeedbackOf(feedback, last.fax_id) # {}

\* What a step is allowed to add to the feedback table: a row of a
\* successful override (single or in a batch) or of a successful
\* submit_feedback, for a fax that exists.
FeedbackCreatedBy(g) ==
    /\ g.fax_id \in DOMAIN faxes
    /\ \/ /\ IsCall("review") /\ last'.action = "override"
          /\ last'.outcome = "ok" /\ last'.fax_id = g.fax_id
          /\ g.origin = "override"
       \/ /\ IsCall("batch") /\ last'.action = "override"
          /\ last'.processed > 0 /\ g.fax_id \in Range(last'.ids)
          /\ g.origin = "override"
       \/ /\ IsCall("submit_feedback")
          /\ last'.outcome = "ok" /\ last'.fax_id = g.fax_id
          /\ g.origin = "submit"

\* C30: the feedback table is append-only.  A row is added only by a
\* successful override or submit_feedback on an existing fax and gets a
\* fresh id; a row that exists stays as it is until the delete of its fax
\* removes it; approve, mark_processed and failed calls leave the table
\* alone.
C30_FeedbackAppendOnly ==
    [][/\ \A f \in feedback :
            \/ f \in feedback'
            \/ /\ IsCall("delete") /\ last'.outcome = "ok"
               /\ last'.fax_id = f.fax_id
               /\ \A g \in feedback' : g.id # f.id
       /\ \A g \in feedback' \ feedback :
            /\ FeedbackCreatedBy(g)
            /\ \A f \in feedback : f.id # g.id
       /\ (\/ IsCall("review") /\ last'.action = "approve"
           \/ IsCall("mark_processed")
           \/ last'.outcome \in {"not_found", "ValueError"}
           \/ IsCall("batch") /\ last'.processed = 0)
          => feedback' = feedback]_vars

\* C30 witness: the table holds a row of an override and a row of
\* submit_feedback, and the fax of the override has just been marked
\* processed.
C30_Witness ==
    /\ last.op = "mark_processed"
    /\ last.outcome = "ok"
    /\ \E f, g \in feedback :
          /\ f.origin = "override" /\ f.fax_id = last.fax_id
          /\ g.origin = "submit"

\* The commit of a review in session w has just happened.
IsReviewCommit(w) ==
    /\ sessions[w].pc = "loaded"
    /\ sessions'[w].pc = "done"
    /\ sessions[w].op \in Actions

\* C31: a review reaches the store as one unit.  The store changes only at
\* a commit; the commit of a review writes every column the review changed
\* and, for an override, the feedback row, in one step, or nothing at all;
\* so no state shows a row that has just become overridden without its
\* feedback row, its final_category or its was_overridden.
C31_ReviewAtomic ==
    [][/\ \A w \in Sessions : IsReviewCommit(w) =>
            LET se == sessions[w]
                assigned == ReviewedRow(se)
            IN  IF sessions'[w].outcome = "ok"
                THEN /\ \A c \in DOMAIN assigned :
                          faxes'[se.id][c] =
                             IF c \in ChangedColumns(se.row, assigned)
                             THEN assigned[c] ELSE faxes[se.id][c]
                     /\ IF se.op = "override"
                        THEN \E g \in feedback' \ feedback :
                                /\ g.fax_id = se.id
                                /\ g.correct_category = se.req.category
                                /\ feedback' = feedback \cup {g}
                        ELSE feedback' = feedback
                ELSE faxes' = faxes /\ feedback' = feedback
       /\ (\A w \in Sessions : sessions'[w].pc = "done" => sessions[w].pc = "done")
            => (faxes' = faxes /\ feedback' = feedback)
       /\ \A id \in DOMAIN faxes \cap DOMAIN faxes' :
            (faxes[id].status # "overridden" /\ faxes'[id].status = "overridden")
            => /\ faxes'[id].was_overridden
               /\ faxes'[id].final_category # NULL
               /\ \E g \in feedback' \ feedback : g.fax_id = id]_vars

\* The decision a row carries.
Decision(row) ==
    <<row.status, row.final_category, row.was_overridden, row.override_reason>>

\* C32: when an approve and an override of the same row overlap and both
\* complete, the row carries the decision that the two calls leave when run
\* one after the other, in one of the two orders.
C32_LastWriteWins ==
    \A a, o \in Sessions :
        (/\ sessions[a].pc = "done" /\ sessions[a].op = "approve"
         /\ sessions[o].pc = "done" /\ sessions[o].op = "override"
         /\ sessions[a].outcome = "ok" /\ sessions[o].outcome = "ok"
         /\ sessions[a].id = sessions[o].id
         /\ sessions[a].row = sessions[o].row
         /\ (sessions[a].raced \/ sessions[o].raced)
         /\ sessions[a].id \in DOMAIN faxes)
        => LET r0 == sessions[a].row
               ao == OverriddenRow(ApprovedRow(r0, sessions[a].req, sessions[a].now),
                                   sessions[o].req, sessions[o].now)
               oa == ApprovedRow(OverriddenRow(r0, sessions[o].req, sessions[o].now),
                                 sessions[a].req, sessions[a].now)
           IN  Decision(faxes[sessions[a].id]) \in {Decision(ao), Decision(oa)}

\* C36: after any sequence of review-side calls, run one after the other,
\* every row satisfies: approved implies final_category = ai_category and
\* was_overridden = FALSE; overridden implies was_overridden = TRUE and a
\* final_category; a final_category implies a reviewed_at; pending or
\* categorized implies no final_category.
C36_StatusFieldsConsistent ==
    \A id \in DOMAIN faxes :
        LET row == faxes[id] IN
        /\ row.status = "approved"
             => (row.final_category = row.ai_category /\ ~row.was_overridden)
        /\ row.status = "overridden"
             => (row.was_overridden /\ row.final_category # NULL)
        /\ row.final_category # NULL => row.reviewed_at # NoTime
        /\ row.status \in {"pending", "categorized"}
             => row.final_category = NULL

\* C36 witness: one row is approved after it had been overridden, another
\* row is overridden.
C36_Witness ==
    \E i, j \in DOMAIN faxes :
        /\ faxes[i].status = "approved"
        /\ overrideCount[i] > 0
        /\ faxes[j].status = "overridden"
        /\ faxes[j].final_category # faxes[j].ai_category

\* C37: after any sequence of reviews of a row, override_reason is set only
\* if was_overridden is TRUE.
C37_NoReasonLeftOver ==
    \A id \in DOMAIN faxes :
        faxes[id].override_reason # NULL => faxes[id].was_overridden

\* C38: in every state, for every interleaving of override, submit_feedback
\* and delete on a fax id, every feedback row refers to a fax row that
\* exists.
C38_FeedbackRefersToFax ==
    \A f \in feedback : f.fax_id \in DOMAIN faxes

\* At most one row of the settings table has a given key.
OneRowPerKey(rows) ==
    \A r, q \in rows : r.key = q.key => r = q

\* C34 as stated: get_settings returns the fixed defaults for every key
\* without row; update_settings leaves at most one row per key, and the
\* settings it returns hold the updated value for each updated key and the
\* previous value for every other key.
C34_SettingsUpsert ==
    /\ [](\A k \in SettingKeys :
             (\A r \in settings : r.key # k)
             => get_settings(settings)[k] =
                   [watch_folder |-> DEFAULT_WATCH_FOLDER,
                    auto_process |-> TRUE,
                    require_review |-> TRUE,
                    confidence_threshold |-> DEFAULT_CONFIDENCE_THRESHOLD][k])
    /\ [][IsCallOf("update_settings")
          => /\ OneRowPerKey(settings')
             /\ call'.value = get_settings(settings')
             /\ \A k \in SettingKeys :
                   call'.value[k] = IF k \in DOMAIN call'.updates
                                    THEN call'.updates[k]
                                    ELSE call'.previous[k]]_vars

\* C34 amended: as C34, except that an updated watch_folder that is the
\* empty string reads back as the default watch folder.
C34_SettingsUpsertAmended ==
    /\ [](\A k \in SettingKeys :
             (\A r \in settings : r.key # k)
             => get_settings(settings)[k] =
                   [watch_folder |-> DEFAULT_WATCH_FOLDER,
                    auto_process |-> TRUE,
                    require_review |-> TRUE,
                    confidence_threshold |-> DEFAULT_CONFIDENCE_THRESHOLD][k])
    /\ [][IsCallOf("update_settings")
          => /\ OneRowPerKey(settings')
             /\ call'.value = get_settings(settings')
             /\ \A k \in SettingKeys :
                   call'.value[k] =
                      IF k \notin DOMAIN call'.updates THEN call'.previous[k]
                      ELSE IF k = "watch_folder" /\ call'.updates[k] = ""
                      THEN DEFAULT_WATCH_FOLDER
                      ELSE call'.updates[k]]_vars

\* C34 witness: update_settings has just replaced the value of a key that
\* had a row, and left a key set by an earlier call as it was.
C34_Witness ==
    /\ call.fn = "update_settings"
    /\ "confidence_threshold" \in DOMAIN call.updates
    /\ call.previous.confidence_threshold
         \notin {DEFAULT_CONFIDENCE_THRESHOLD, call.updates["confidence_threshold"]}
    /\ call.value.confidence_threshold = call.updates["confidence_threshold"]
    /\ call.value.watch_folder = "/srv/faxes"
    /\ ~call.value.require_review

C35_EveryFileTakenIn ==
    \A f \in FaxPaths :
        (/\ hist.kind = "scan" /\ hist.outcome = "listed"
         /\ hist.by \in LoopThreads
         /\ ~stop_event
         /\ folder.files[f] = "stable"
         /\ (f \notin watcher.processed_files \/ f \in hist.rearrived))
        ~> \/ hist.kind = "file" /\ hist.path = f
           \/ stop_event
           \/ ~folder.exists

\* C39: after start_watcher(watch_folder = F) with a non-empty F the global
\* watcher watches F, whether or not the global instance existed before the
\* call.
C39_StartUsesFolder ==
    global_watcher.requested \notin {NULL, ""}
        => global_watcher.watch_folder = global_watcher.requested

====
